---------------------------- MODULE Spec2Model ----------------------------
(***************************************************************************)
(* A model of the chat-room server of src/server.js: the session registry  *)
(* (user_join, change_username, admin_action, disconnect) and the          *)
(* two-player game engine (game_invite, game_accept, game_decline,         *)
(* game_move, game_quit, applyGameMove and the two win checks).            *)
(*                                                                         *)
(* Every socket.io handler runs to completion before the next one starts,  *)
(* so each handler is one action.  A handler is written as an operator     *)
(* from the server state (a record, see State) to the server state after   *)
(* it, so that a handler that triggers another one (socket.disconnect(true)*)
(* runs the 'disconnect' handler of that socket) is their composition.     *)
(*                                                                         *)
(* A user name is a sequence of one-character strings, so that trim(),     *)
(* substring(0, 20) and toLowerCase() are computed, not assumed.           *)
(* The text of a system message, the avatar, the profile cache, the        *)
(* statistics and the activity log are not modelled.                       *)
(***************************************************************************)
EXTENDS Integers, Sequences, FiniteSets, TLC

(***************************************************************************)
(* Bounds of the model.                                                    *)
(***************************************************************************)
MaxSockets == 3      \* connections ever opened (socket ids are never reused)
MaxMsgId == 4        \* the number of message ids the model lets the server issue
MaxTime == 120001    \* the milliseconds the server runs for

(***************************************************************************)
(* Program constants.                                                      *)
(***************************************************************************)
MAX_HISTORY == 500
MAX_CHANNEL_HISTORY == 200
DM_MAX == 100
GEMINI_HISTORY == 500        \* the bound gemini_response applies to a channel log
CONTENT_MAX == 500
MS_PER_SECOND == 1000
MS_PER_MINUTE == 60000
START_TIME == 1000000000     \* Date.now() when the server starts
NAME_MAX == 20
TTT_CELLS == 9
C4_ROWS == 6
C4_COLS == 7

Sockets == 1 .. MaxSockets
\* the socket of the administrator's console in the specifications where
\* it opens no session
AdminSocket == 1
Broadcast == 0       \* the addressee of io.emit

\* a password that is not the administrator's
WRONG_PASSWORD == "guess"

ADMIN_PASSWORD == "IndieGabVR2024"

\* the channel names, without their accents
AVAILABLE_CHANNELS == <<"general", "presentation", "jeux", "musique", "films",
                        "random", "aide">>
Channels == {AVAILABLE_CHANNELS[i] : i \in 1 .. Len(AVAILABLE_CHANNELS)}

(***************************************************************************)
(* Strings.                                                                *)
(***************************************************************************)
Min(a, b) == IF a < b THEN a ELSE b

toLowerChar(c) ==
    CASE c = "A" -> "a"
      [] c = "B" -> "b"
      [] c = "C" -> "c"
      [] OTHER -> c

toLowerCase(s) == [i \in 1 .. Len(s) |-> toLowerChar(s[i])]

RECURSIVE trimStart(_)
trimStart(s) ==
    IF s # << >> /\ Head(s) = " " THEN trimStart(Tail(s)) ELSE s

RECURSIVE trimEnd(_)
trimEnd(s) ==
    IF s # << >> /\ s[Len(s)] = " " THEN trimEnd(SubSeq(s, 1, Len(s) - 1)) ELSE s

trim(s) == trimEnd(trimStart(s))

substring20(s) == SubSeq(s, 1, Min(Len(s), NAME_MAX))

(***************************************************************************)
(* Sequences used as insertion-ordered Maps (connectedUsers) and arrays.   *)
(***************************************************************************)
SelectIdx(seq, Test(_)) == {i \in 1 .. Len(seq) : Test(seq[i])}

MinOf(S) == CHOOSE x \in S : \A y \in S : x <= y
MaxOf(S) == CHOOSE x \in S : \A y \in S : y <= x

Without(seq, i) ==
    [j \in 1 .. Len(seq) - 1 |-> IF j < i THEN seq[j] ELSE seq[j + 1]]


EmptyMap == [k \in {} |-> 0]
MapRemove(f, k) == [x \in DOMAIN f \ {k} |-> f[x]]
MapPut(f, k, v) == [x \in DOMAIN f \cup {k} |-> IF x = k THEN v ELSE f[x]]

Null == << >>        \* null, undefined and '' : the falsy values of a name

\* a field the payload does not have, where the code reads a property of it
Undefined == <<"undefined">>

(***************************************************************************)
(* The server state (src/server.js:74-128, 2004-2005).                     *)
(*   connectedUsers   socket id -> user, in insertion order                *)
(*   closed           the sockets that have disconnected                   *)
(*   messageId        the next message id                                  *)
(*   loadedMessageId  the message id the server started with              *)
(*   chatHistory      the unified log: messages                            *)
(*                    [id, type, username, channel, content, attachment,   *)
(*                     timestamp, userId, edited]; a message made in this  *)
(*                    run is one object in the unified log and in its      *)
(*                    channel's log, a loaded one is two                   *)
(*   channelHistories channel -> the log of the channel                    *)
(*   lastMessageTime  socket id -> the time slow mode last let it through  *)
(*   messageReactions String(message id) -> emoji -> names                 *)
(*   adminUsersList   names that passed admin_login                        *)
(*   bannedUsers      lower-cased name -> [username, expiresAt, permanent] *)
(*   serverConfig     [isPrivate, accessCode, slowMode, globalMute]        *)
(*   gameInvites      invite id -> invite                                  *)
(*   activeGames      game id -> game                                      *)
(*   polls            poll id -> poll                                      *)
(*   pollVotes        poll id -> (username -> option index)                *)
(*   pollIdCounter    the number of the next poll                          *)
(*   dmHistory        thread key -> messages                               *)
(*   typingUsers      socket id -> [username, channel, timestamp], in       *)
(*                    insertion order                                      *)
(*   process          running, shutting_down (gracefulShutdown has run) or  *)
(*                    exited                                               *)
(*   now              Date.now()                                           *)
(* and what the last handler did:                                          *)
(*   emitted          the events it sent, in order                         *)
(*   branch           the handler and the return it took                   *)
(*   result           the results applyGameMove returned to it             *)
(* and, for the checks of applyGameMove as a function of the board:        *)
(*   probe            a board, a move and what applyGameMove made of them  *)
(***************************************************************************)
VARIABLES connectedUsers, closed, messageId, chatHistory, messageReactions,
          adminUsersList, bannedUsers, serverConfig, gameInvites, activeGames,
          now, emitted, branch, result, probe, loadedMessageId,
          channelHistories, lastMessageTime, polls, pollVotes, pollIdCounter,
          process, typingUsers, dmHistory

server == <<connectedUsers, closed, messageId, chatHistory, messageReactions,
            adminUsersList, bannedUsers, serverConfig, gameInvites, activeGames,
            now, loadedMessageId, channelHistories, lastMessageTime,
            polls, pollVotes, pollIdCounter, process, typingUsers,
            dmHistory>>

vars == <<server, emitted, branch, result, probe>>

State ==
    [connectedUsers |-> connectedUsers, closed |-> closed,
     messageId |-> messageId, chatHistory |-> chatHistory,
     messageReactions |-> messageReactions, adminUsersList |-> adminUsersList,
     bannedUsers |-> bannedUsers, serverConfig |-> serverConfig,
     gameInvites |-> gameInvites, activeGames |-> activeGames, now |-> now,
     channelHistories |-> channelHistories, lastMessageTime |-> lastMessageTime,
     loadedMessageId |-> loadedMessageId,
     polls |-> polls, pollVotes |-> pollVotes, pollIdCounter |-> pollIdCounter,
     process |-> process, typingUsers |-> typingUsers,
     dmHistory |-> dmHistory,
     emitted |-> << >>, branch |-> "", result |-> << >>]

\* The state a handler leaves becomes the server state.  The guard caps the
\* message-id counter: at most MaxMsgId ids are issued.
Becomes(st) ==
    \E s \in {st} :
        /\ s.messageId <= loadedMessageId + MaxMsgId
        /\ process # "exited"
        /\ process' = s.process
        /\ typingUsers' = s.typingUsers
        /\ dmHistory' = s.dmHistory
        /\ channelHistories' = s.channelHistories
        /\ lastMessageTime' = s.lastMessageTime
        /\ polls' = s.polls
        /\ pollVotes' = s.pollVotes
        /\ pollIdCounter' = s.pollIdCounter
        /\ UNCHANGED loadedMessageId
        /\ connectedUsers' = s.connectedUsers
        /\ closed' = s.closed
        /\ messageId' = s.messageId
        /\ chatHistory' = s.chatHistory
        /\ messageReactions' = s.messageReactions
        /\ adminUsersList' = s.adminUsersList
        /\ bannedUsers' = s.bannedUsers
        /\ serverConfig' = s.serverConfig
        /\ gameInvites' = s.gameInvites
        /\ activeGames' = s.activeGames
        /\ now' = s.now
        /\ emitted' = s.emitted
        /\ branch' = s.branch
        /\ result' = s.result
        /\ UNCHANGED probe

NoProbe == [game |-> << >>, move |-> 0, playerIndex |-> 0, out |-> << >>]

\* what a start never loads
InitSessions ==
    /\ connectedUsers = << >>
    /\ closed = {}
    /\ lastMessageTime = EmptyMap
    /\ adminUsersList = << >>
    /\ bannedUsers = EmptyMap
    /\ serverConfig = [isPrivate |-> FALSE, accessCode |-> "", slowMode |-> 0,
                       globalMute |-> FALSE]
    /\ gameInvites = EmptyMap
    /\ activeGames = EmptyMap
    /\ polls = EmptyMap
    /\ pollVotes = EmptyMap
    /\ pollIdCounter = 1
    /\ process = "running"
    /\ typingUsers = << >>
    /\ now = 0
    /\ emitted = << >>
    /\ branch = ""
    /\ result = << >>

\* the server after a start with nothing to load, or with RESET_HISTORY
InitServer ==
    /\ InitSessions
    /\ dmHistory = EmptyMap
    /\ loadedMessageId = 1
    /\ messageId = 1
    /\ chatHistory = << >>
    /\ channelHistories = [ch \in Channels |-> << >>]
    /\ messageReactions = EmptyMap

Init == InitServer /\ probe = NoProbe

Emit(st, e) == [st EXCEPT !.emitted = Append(@, e)]
Return(st, label) == [st EXCEPT !.branch = label]

(***************************************************************************)
(* connectedUsers as a Map.                                                *)
(***************************************************************************)
UserIdx(cu, sid) == SelectIdx(cu, LAMBDA u : u.id = sid)
HasUser(cu, sid) == UserIdx(cu, sid) # {}
GetUser(cu, sid) == cu[MinOf(UserIdx(cu, sid))]
\* a set that leaves an existing key as it is
SetUserOnce(cu, sid, u) == IF HasUser(cu, sid) THEN cu ELSE Append(cu, u)

\* Map.set: an existing key keeps its place, a new key goes last
SetUser(cu, sid, u) ==
    IF HasUser(cu, sid)
    THEN [cu EXCEPT ![MinOf(UserIdx(cu, sid))] = u]
    ELSE Append(cu, u)
DeleteUser(cu, sid) ==
    IF HasUser(cu, sid) THEN Without(cu, MinOf(UserIdx(cu, sid))) ELSE cu

\* connectedUsers.forEach((user, sid) => { if (test) found = ... }): the
\* last user that passes, as an index, 0 when there is none
LastMatch(cu, Test(_)) ==
    IF SelectIdx(cu, Test) = {} THEN 0 ELSE MaxOf(SelectIdx(cu, Test))
\* Array.from(connectedUsers.values()).find(test): the first one
FirstMatch(cu, Test(_)) ==
    IF SelectIdx(cu, Test) = {} THEN 0 ELSE MinOf(SelectIdx(cu, Test))

(***************************************************************************)
(* addToHistory (src/server.js:2277-2298).                                 *)
(***************************************************************************)
\* a slice that keeps the first n: seq.slice(0, n)
sliceFirst(seq, n) ==
    IF Len(seq) > n THEN SubSeq(seq, 1, n) ELSE seq

sliceLast(seq, n) ==
    IF Len(seq) > n THEN SubSeq(seq, Len(seq) - n + 1, Len(seq)) ELSE seq

addToHistory(st, message) ==
    LET pushed == Append(st.chatHistory, message)
    IN  IF Len(pushed) > MAX_HISTORY
        THEN LET kept == sliceLast(pushed, MAX_HISTORY)
                 validIds == {ToString(kept[i].id) : i \in 1 .. Len(kept)}
             IN  [st EXCEPT !.chatHistory = kept,
                            !.messageReactions =
                                [mid \in DOMAIN @ \cap validIds |-> @[mid]]]
        ELSE [st EXCEPT !.chatHistory = pushed]

\* Date.now(): the variable now counts the milliseconds since the start
DateNow(st) == START_TIME + st.now

\* the userId of a message that has none, and of the bot's messages
NO_USER_ID == 0
GEMINI_USER_ID == 0 - 1

\* a system message takes the next id, goes to the unified log and to everyone
SystemMessage(st, kind) ==
    LET m == [id |-> st.messageId, type |-> "system", username |-> Null,
              channel |-> Null, content |-> Null, attachment |-> FALSE,
              timestamp |-> DateNow(st), userId |-> NO_USER_ID,
              edited |-> FALSE]
    IN  Emit(addToHistory([st EXCEPT !.messageId = @ + 1], m),
             [to |-> Broadcast, ev |-> "system_message", id |-> m.id,
              kind |-> kind])

updateUsersList(st) ==
    Emit(st, [to |-> Broadcast, ev |-> "users_update",
              count |-> Len(st.connectedUsers)])

(***************************************************************************)
(* disconnect (src/server.js:1693-1750).  It also runs inside the handlers *)
(* that call socket.disconnect(true).                                      *)
(***************************************************************************)
IndexOf(seq, x) ==
    IF SelectIdx(seq, LAMBDA y : y = x) = {} THEN 0
    ELSE MinOf(SelectIdx(seq, LAMBDA y : y = x))

(***************************************************************************)
(* Typing indicators.  An entry of typingUsers is                          *)
(* [id, username, channel, timestamp], id being the key of the Map.        *)
(***************************************************************************)
TYPING_TTL == 5000

\* a test that forgets the age of the entry
isTypingWhateverAge(st, data) == HasUser(st.connectedUsers, data.id)

\* now - data.timestamp < 5000 && connectedUsers.has(socketId)
isTyping(st, data) ==
    DateNow(st) - data.timestamp < TYPING_TTL /\ HasUser(st.connectedUsers, data.id)

Usernames(entries) == [i \in 1 .. Len(entries) |-> entries[i].username]

\* getChannelTypingUsers (2315-2333)
getChannelTypingUsers(st) ==
    [ch \in Channels |->
        Usernames(SelectSeq(st.typingUsers,
                            LAMBDA data : isTyping(st, data) /\ data.channel = ch))]

\* updateTypingIndicator (2363-2383): the entries that are not reported are
\* deleted
updateTypingIndicator(st) ==
    LET active == SelectSeq(st.typingUsers, LAMBDA data : isTyping(st, data))
    IN  Emit([st EXCEPT !.typingUsers = active],
             [to |-> Broadcast, ev |-> "typing_update", users |-> Usernames(active)])

\* if (typingUsers.has(socket.id)) { delete; updateTypingIndicator() }
stopTyping(st, sid) ==
    IF HasUser(st.typingUsers, sid)
    THEN updateTypingIndicator([st EXCEPT !.typingUsers = DeleteUser(@, sid)])
    ELSE st

\* typing_start (1604-1618); the payload names the channel
typing_start(st, sid, channel) ==
    IF ~HasUser(st.connectedUsers, sid) THEN Return(st, "typing_start:no_user")
    ELSE
      LET user == GetUser(st.connectedUsers, sid)
          data == [id |-> sid, username |-> user.username, channel |-> channel,
                   timestamp |-> DateNow(st)]
          st1 == updateTypingIndicator(
                    [st EXCEPT !.typingUsers = SetUser(@, sid, data)])
      IN  Return(Emit(st1, [to |-> Broadcast, ev |-> "channel_typing_update",
                            typing |-> getChannelTypingUsers(st1)]),
                 "typing_start:ok")

\* typing_stop (1620-1629)
typing_stop(st, sid) ==
    IF ~HasUser(st.typingUsers, sid) THEN Return(st, "typing_stop:none")
    ELSE LET st1 == stopTyping(st, sid)
         IN  Return(Emit(st1, [to |-> Broadcast, ev |-> "channel_typing_update",
                               typing |-> getChannelTypingUsers(st1)]),
                    "typing_stop:ok")

\* the timer of 2 s (2537-2552): entries older than 5 s are deleted
expireTyping(st) ==
    LET kept == SelectSeq(st.typingUsers,
                          LAMBDA data : ~(DateNow(st) - data.timestamp > TYPING_TTL))
        st1 == [st EXCEPT !.typingUsers = kept]
    IN  IF kept = st.typingUsers THEN Return(st, "expire_typing:none")
        ELSE Return(updateTypingIndicator(
                        Emit(st1, [to |-> Broadcast, ev |-> "channel_typing_update",
                                   typing |-> getChannelTypingUsers(st1)])),
                    "expire_typing:ok")

disconnect(st, sid) ==
    LET st0 == [st EXCEPT !.closed = @ \cup {sid}]
    IN  IF ~HasUser(st.connectedUsers, sid)
        THEN st0
        ELSE
          LET user == GetUser(st.connectedUsers, sid)
              adminIndex == IndexOf(st0.adminUsersList, user.username)
              st1 == IF adminIndex > 0
                     THEN Emit([st0 EXCEPT !.adminUsersList = Without(@, adminIndex)],
                               [to |-> Broadcast, ev |-> "admin_list_update"])
                     ELSE st0
              st2 == stopTyping(SystemMessage(st1, "leave"), sid)
              st3 == [st2 EXCEPT !.connectedUsers = DeleteUser(@, sid)]
          IN  updateUsersList(st3)

(***************************************************************************)
(* user_join (src/server.js:1246-1387).                                    *)
(***************************************************************************)
\* an expiry test that forgets the permanent flag, and one that never fires
BanExpiredUnlessForEver(ban, t) == ban.expiresAt < t

BanNeverExpired(ban, t) == FALSE

\* !ban.permanent && new Date(ban.expiresAt) < now; new Date(null) is time 0
BanExpired(ban, t) == ~ban.permanent /\ ban.expiresAt < t

\* a comparison that tells letter case apart: what the uniqueness of names
\* would be without toLowerCase
NameTakenExact(cu, name) ==
    FirstMatch(cu, LAMBDA u : u.username = name) # 0

NameTaken(cu, name) ==
    FirstMatch(cu, LAMBDA u : toLowerCase(u.username) = toLowerCase(name)) # 0

user_join(st, sid, username, accessCode) ==
    IF username = Null \/ Len(trim(username)) = 0
    THEN Return(Emit(st, [to |-> sid, ev |-> "error"]), "user_join:invalid")
    ELSE
      LET cleanUsername == substring20(trim(username))
          banIdentifier == toLowerCase(cleanUsername)
          isBanned == /\ banIdentifier \in DOMAIN st.bannedUsers
                      /\ ~BanExpired(st.bannedUsers[banIdentifier], DateNow(st))
          \* an expired entry is deleted on the way
          st1 == IF banIdentifier \in DOMAIN st.bannedUsers /\ ~isBanned
                 THEN [st EXCEPT !.bannedUsers = MapRemove(@, banIdentifier)]
                 ELSE st
      IN  IF isBanned
          THEN Return(disconnect(Emit(st, [to |-> sid, ev |-> "kicked"]), sid),
                      "user_join:banned")
          ELSE IF /\ st1.serverConfig.isPrivate
                  /\ st1.serverConfig.accessCode # ""
                  /\ accessCode # st1.serverConfig.accessCode
          THEN Return(Emit(st1, [to |-> sid, ev |-> "access_denied"]),
                      "user_join:access_denied")
          ELSE IF NameTaken(st1.connectedUsers, cleanUsername)
          THEN Return(Emit(st1, [to |-> sid, ev |-> "username_taken"]),
                      "user_join:taken")
          ELSE
            LET userInfo == [id |-> sid, username |-> cleanUsername]
                st2 == [st1 EXCEPT !.connectedUsers = SetUser(@, sid, userInfo)]
                st3 == Emit(st2, [to |-> sid, ev |-> "chat_history",
                                  messages |-> st2.chatHistory])
                st4 == SystemMessage(st3, "join")
            IN  Return(updateUsersList(st4), "user_join:ok")

(***************************************************************************)
(* addToChannelHistory (src/server.js:2301-2312), gemini_response          *)
(* (1390-1434), send_message (1437-1570), switch_channel (1573-1601).      *)
(***************************************************************************)
addToChannelHistory(st, message, channel) ==
    LET old == IF channel \in DOMAIN st.channelHistories
               THEN st.channelHistories[channel] ELSE << >>
    IN  [st EXCEPT !.channelHistories =
            MapPut(@, channel, sliceLast(Append(old, message), MAX_CHANNEL_HISTORY))]

\* the name of the bot, without its emoji
GEMINI_BOT == <<"G", "e", "m", "i", "n", "i", "B", "o", "t">>

\* data.channel || 'général'
ChannelOr(channel) == IF channel = "" THEN AVAILABLE_CHANNELS[1] ELSE channel

gemini_response(st, sid, channel, content) ==
    IF ~HasUser(st.connectedUsers, sid)
    THEN Return(st, "gemini_response:no_user")
    ELSE
      LET ch == ChannelOr(channel)
          botMessage == [id |-> st.messageId, type |-> "user",
                         username |-> GEMINI_BOT, channel |-> ch,
                         content |-> content, attachment |-> FALSE,
                         timestamp |-> DateNow(st), userId |-> GEMINI_USER_ID,
                         edited |-> FALSE]
          old == IF ch \in DOMAIN st.channelHistories
                 THEN st.channelHistories[ch] ELSE << >>
          st1 == [st EXCEPT !.messageId = @ + 1,
                            !.channelHistories =
                                MapPut(@, ch, sliceLast(Append(old, botMessage),
                                                        GEMINI_HISTORY))]
      IN  Return(Emit(st1, [to |-> Broadcast, ev |-> "new_message",
                            message |-> botMessage]),
                 "gemini_response:ok")

substring500(s) == SubSeq(s, 1, Min(Len(s), CONTENT_MAX))

\* .replace(/</g, '&lt;').replace(/>/g, '&gt;').replace(/"/g, '&quot;')
escapeChar(c) ==
    CASE c = "<" -> <<"&", "l", "t", ";">>
      [] c = ">" -> <<"&", "g", "t", ";">>
      [] c = "\"" -> <<"&", "q", "u", "o", "t", ";">>
      [] OTHER -> <<c>>

RECURSIVE escape(_)
escape(s) == IF s = << >> THEN << >> ELSE escapeChar(Head(s)) \o escape(Tail(s))

\* a division that rounds down
FloorDiv(a, b) == a \div b

\* Math.ceil(a / b) for a > 0 and b > 0
CeilDiv(a, b) == (a + b - 1) \div b

\* a membership test that finds everything
includesAll(seq, x) == TRUE

includes(seq, x) == \E i \in 1 .. Len(seq) : seq[i] = x

send_message(st, sid, channel, content, attachment) ==
    IF ~HasUser(st.connectedUsers, sid)
    THEN Return(Emit(st, [to |-> sid, ev |-> "error"]), "send_message:no_user")
    ELSE
      LET user == GetUser(st.connectedUsers, sid)
          isAdmin == includes(st.adminUsersList, user.username)
          slow == st.serverConfig.slowMode > 0 /\ ~isAdmin
          lastTime == IF sid \in DOMAIN st.lastMessageTime
                      THEN st.lastMessageTime[sid] ELSE 0
          \* timeSinceLastMessage < slowMode, both sides times 1000
          waitMs == st.serverConfig.slowMode * MS_PER_SECOND
                        - (DateNow(st) - lastTime)
      IN  IF st.serverConfig.globalMute /\ ~isAdmin
          THEN Return(Emit(st, [to |-> sid, ev |-> "muted"]), "send_message:muted")
          ELSE IF slow /\ waitMs > 0
          THEN Return(Emit(st, [to |-> sid, ev |-> "slow_mode_active",
                                remainingTime |-> CeilDiv(waitMs, MS_PER_SECOND)]),
                      "send_message:slow_mode")
          ELSE
            LET st1 == IF slow
                       THEN [st EXCEPT !.lastMessageTime = MapPut(@, sid, DateNow(st))]
                       ELSE st
                ch == ChannelOr(channel)
            IN  IF ~includes(AVAILABLE_CHANNELS, ch)
                THEN Return(Emit(st1, [to |-> sid, ev |-> "error"]),
                            "send_message:bad_channel")
                ELSE
                  LET message == [id |-> st1.messageId, type |-> "user",
                                  username |-> user.username, channel |-> ch,
                                  content |-> substring500(trim(content)),
                                  attachment |-> attachment,
                                  timestamp |-> DateNow(st), userId |-> sid,
                                  edited |-> FALSE]
                      st2 == [st1 EXCEPT !.messageId = @ + 1]
                  IN  IF message.content = << >> /\ ~message.attachment
                      THEN Return(Emit(st2, [to |-> sid, ev |-> "error"]),
                                  "send_message:empty")
                      ELSE
                        LET sent == [message EXCEPT !.content = escape(@)]
                            st3 == addToHistory(addToChannelHistory(st2, sent, ch), sent)
                        IN  Return(stopTyping(
                                       Emit(st3, [to |-> Broadcast,
                                                  ev |-> "new_message",
                                                  message |-> sent]), sid),
                                   "send_message:ok")

switch_channel(st, sid, channel) ==
    IF ~HasUser(st.connectedUsers, sid)
    THEN Return(st, "switch_channel:no_user")
    ELSE IF ~includes(AVAILABLE_CHANNELS, channel)
    THEN Return(Emit(st, [to |-> sid, ev |-> "error"]), "switch_channel:bad_channel")
    ELSE Return(Emit(st, [to |-> sid, ev |-> "channel_history", channel |-> channel,
                          messages |-> IF channel \in DOMAIN st.channelHistories
                                       THEN st.channelHistories[channel] ELSE << >>,
                          reactions |-> st.messageReactions]),
                "switch_channel:ok")

(***************************************************************************)
(* reaction (src/server.js:632-670).  The reaction index is an object, so  *)
(* its keys are strings: String(messageId).                                *)
(***************************************************************************)
reaction(st, sid, msgId, emoji, action) ==
    IF ~HasUser(st.connectedUsers, sid) \/ msgId = 0 \/ emoji = ""
    THEN Return(st, "reaction:ignored")
    ELSE
      LET username == GetUser(st.connectedUsers, sid).username
          key == ToString(msgId)
          ofMessage == IF key \in DOMAIN st.messageReactions
                       THEN st.messageReactions[key] ELSE EmptyMap
          names == IF emoji \in DOMAIN ofMessage THEN ofMessage[emoji] ELSE << >>
          userIndex == IndexOf(names, username)
          names1 == CASE action = "add" /\ userIndex = 0 -> Append(names, username)
                      [] action = "remove" /\ userIndex > 0 -> Without(names, userIndex)
                      [] OTHER -> names
          removed == action = "remove" /\ userIndex > 0
          ofMessage1 == IF removed /\ names1 = << >>
                        THEN MapRemove(ofMessage, emoji)
                        ELSE MapPut(ofMessage, emoji, names1)
          reactions1 == IF removed /\ DOMAIN ofMessage1 = {}
                        THEN MapRemove(st.messageReactions, key)
                        ELSE MapPut(st.messageReactions, key, ofMessage1)
          st1 == [st EXCEPT !.messageReactions = reactions1]
      IN  Return(Emit(st1, [to |-> Broadcast, ev |-> "reaction_update",
                            messageId |-> msgId,
                            reactions |-> IF key \in DOMAIN reactions1
                                          THEN reactions1[key] ELSE EmptyMap]),
                 "reaction:ok")

(***************************************************************************)
(* admin_login (src/server.js:1122-1136).                                  *)
(***************************************************************************)
admin_login(st, sid, password, username) ==
    IF password = ADMIN_PASSWORD /\ username # Null
    THEN LET st1 == IF includes(st.adminUsersList, username) THEN st
                    ELSE [st EXCEPT !.adminUsersList = Append(@, username)]
         IN  Return(Emit(st1, [to |-> Broadcast, ev |-> "admin_list_update"]),
                    "admin_login:ok")
    ELSE Return(st, "admin_login:refused")

(***************************************************************************)
(* delete_message (src/server.js:1139-1181).                               *)
(***************************************************************************)
\* socket.emit('admin_response', { success, message })
AdminResponse(st, sid, success) ==
    Emit(st, [to |-> sid, ev |-> "admin_response", success |-> success])

\* chatHistory.findIndex(m => m.id == messageId), 0 when there is none
findMessage(history, msgId) ==
    LET hit == {i \in 1 .. Len(history) : history[i].id = msgId}
    IN  IF hit = {} THEN 0 ELSE MinOf(hit)

delete_message(st, sid, msgId, password) ==
    IF ~HasUser(st.connectedUsers, sid)
    THEN Return(st, "delete_message:no_user")
    ELSE
      LET user == GetUser(st.connectedUsers, sid)
          isAdmin == password = ADMIN_PASSWORD
          msgIndex == findMessage(st.chatHistory, msgId)
      IN  IF msgIndex = 0
          THEN Return(AdminResponse(st, sid, FALSE), "delete_message:not_found")
          ELSE IF ~isAdmin /\ st.chatHistory[msgIndex].username # user.username
          THEN Return(AdminResponse(st, sid, FALSE), "delete_message:denied")
          ELSE
            LET st1 == [st EXCEPT !.chatHistory = Without(@, msgIndex),
                                  !.messageReactions = MapRemove(@, ToString(msgId))]
            IN  Return(Emit(st1, [to |-> Broadcast, ev |-> "message_deleted",
                                  messageId |-> msgId]),
                       "delete_message:ok")

(***************************************************************************)
(* edit_message (src/server.js:1184-1243).  The message is changed in      *)
(* place: send_message put the same object in the unified log and in the   *)
(* channel's log (1546-1547), so both show the change; a message loaded    *)
(* from the files is a different object in each.                           *)
(***************************************************************************)
EditResponse(st, sid, success) ==
    Emit(st, [to |-> sid, ev |-> "edit_response", success |-> success])

\* the log with the message object of the id msgId edited
editIn(history, msgId, content) ==
    [i \in 1 .. Len(history) |->
        IF history[i].id = msgId
        THEN [history[i] EXCEPT !.content = content, !.edited = TRUE]
        ELSE history[i]]

edit_message(st, sid, msgId, newContent) ==
    IF ~HasUser(st.connectedUsers, sid)
    THEN Return(st, "edit_message:no_user")
    ELSE
      LET user == GetUser(st.connectedUsers, sid)
          msgIndex == findMessage(st.chatHistory, msgId)
          cleanContent == substring500(trim(newContent))
      IN  IF msgIndex = 0
          THEN Return(EditResponse(st, sid, FALSE), "edit_message:not_found")
          ELSE IF st.chatHistory[msgIndex].username # user.username
          THEN Return(EditResponse(st, sid, FALSE), "edit_message:denied")
          ELSE IF cleanContent = << >>
          THEN Return(EditResponse(st, sid, FALSE), "edit_message:empty")
          ELSE
            LET id == st.chatHistory[msgIndex].id
                escapedContent == escape(cleanContent)
                shared == id >= st.loadedMessageId
                st1 == [st EXCEPT
                          !.chatHistory =
                              [@ EXCEPT ![msgIndex] =
                                  [@ EXCEPT !.content = escapedContent,
                                            !.edited = TRUE]],
                          !.channelHistories =
                              [ch \in DOMAIN @ |->
                                  IF shared THEN editIn(@[ch], id, escapedContent)
                                  ELSE @[ch]]]
                st2 == Emit(st1, [to |-> Broadcast, ev |-> "message_edited",
                                  messageId |-> msgId,
                                  newContent |-> escapedContent])
            IN  Return(EditResponse(st2, sid, TRUE), "edit_message:ok")

(***************************************************************************)
(* change_username (src/server.js:708-784).                                *)
(***************************************************************************)
change_username(st, sid, newUsername) ==
    IF ~HasUser(st.connectedUsers, sid)
    THEN Return(Emit(st, [to |-> sid, ev |-> "username_change_error"]),
                "change_username:no_user")
    ELSE
      LET cleanNewUsername == substring20(trim(newUsername))
          existing == FirstMatch(st.connectedUsers, LAMBDA u :
                         /\ toLowerCase(u.username) = toLowerCase(cleanNewUsername)
                         /\ u.id # sid)
      IN  IF Len(cleanNewUsername) < 1
          THEN Return(Emit(st, [to |-> sid, ev |-> "username_change_error"]),
                      "change_username:invalid")
          ELSE IF existing # 0
          THEN Return(Emit(st, [to |-> sid, ev |-> "username_change_error"]),
                      "change_username:taken")
          ELSE
            LET user == [GetUser(st.connectedUsers, sid)
                            EXCEPT !.username = cleanNewUsername]
                st1 == [st EXCEPT !.connectedUsers = SetUser(@, sid, user)]
                st2 == Emit(st1, [to |-> sid, ev |-> "username_changed"])
                st3 == SystemMessage(st2, "rename")
            IN  Return(updateUsersList(st3), "change_username:ok")

(***************************************************************************)
(* admin_action (src/server.js:787-1119): the password check and the       *)
(* actions 'rename' (880-913) and 'kick' (802-827).                        *)
(***************************************************************************)
TargetIdx(cu, target) ==
    LastMatch(cu, LAMBDA u : toLowerCase(u.username) = toLowerCase(target))

admin_rename(st, sid, target, value) ==
    LET i == TargetIdx(st.connectedUsers, target)
    IN  IF i # 0 /\ value # Null
        THEN LET st1 == [st EXCEPT !.connectedUsers[i].username = substring20(value)]
                 st2 == SystemMessage(st1, "admin_rename")
                 st3 == Emit(st2, [to |-> st.connectedUsers[i].id,
                                   ev |-> "force_rename"])
             IN  Return(AdminResponse(updateUsersList(st3), sid, TRUE),
                        "admin_action:rename:ok")
        ELSE Return(AdminResponse(st, sid, FALSE), "admin_action:rename:not_found")

\* gracefulShutdown (2475-2512): everyone is told, the process exits when the
\* server has closed or ten seconds later
gracefulShutdown(st, signal) ==
    Return(Emit([st EXCEPT !.messageId = @ + 1, !.process = "shutting_down"],
                [to |-> Broadcast, ev |-> "system_message", id |-> st.messageId,
                 kind |-> "shutdown"]),
           signal)

\* an exception that leaves a handler which has no try around it, or that is
\* thrown outside its try, reaches process.on('uncaughtException') (2518-2524)
uncaughtException(st) == gracefulShutdown(st, "uncaughtException")

\* 'kick': target.toLowerCase() is evaluated for the first user of
\* connectedUsers and throws when the payload has no target
admin_kick(st, sid, target) ==
    LET i == TargetIdx(st.connectedUsers, target)
    IN  IF target = Undefined /\ st.connectedUsers # << >>
        THEN uncaughtException(st)
        ELSE IF i # 0
        THEN LET kicked == st.connectedUsers[i].id
                 st1 == Emit(st, [to |-> kicked, ev |-> "kicked"])
                 st2 == disconnect(st1, kicked)
                 st3 == AdminResponse(st2, sid, TRUE)
             IN  Return(SystemMessage(st3, "kick"), "admin_action:kick:ok")
        ELSE Return(AdminResponse(st, sid, FALSE), "admin_action:kick:not_found")

\* a system message that takes an id and goes to everyone, but to no log
\* (clear_history, slow_mode, mute_all, unmute_all)
SystemNotice(st, kind) ==
    Emit([st EXCEPT !.messageId = @ + 1],
         [to |-> Broadcast, ev |-> "system_message", id |-> st.messageId,
          kind |-> kind])

\* 'ban' (829-878): data.duration is in minutes, 0 for ever; a null
\* expiresAt is the time 0
admin_ban(st, sid, target, duration) ==
    LET i == TargetIdx(st.connectedUsers, target)
    IN  IF i # 0 \/ target # Null
        THEN LET banEntry == [username |-> target,
                              expiresAt |-> IF duration > 0
                                            THEN DateNow(st) + duration * MS_PER_MINUTE
                                            ELSE 0,
                              permanent |-> duration = 0]
                 st1 == [st EXCEPT !.bannedUsers =
                            MapPut(@, toLowerCase(target), banEntry)]
                 st2 == IF i # 0
                        THEN disconnect(Emit(st1, [to |-> st.connectedUsers[i].id,
                                                   ev |-> "kicked"]),
                                        st.connectedUsers[i].id)
                        ELSE st1
             IN  Return(SystemMessage(AdminResponse(st2, sid, TRUE), "ban"),
                        "admin_action:ban:ok")
        ELSE Return(AdminResponse(st, sid, FALSE), "admin_action:ban:not_found")

\* 'get_banned_users' (1088-1106): the expired entries are deleted first
admin_get_banned_users(st, sid) ==
    LET kept == {id \in DOMAIN st.bannedUsers :
                    ~BanExpired(st.bannedUsers[id], DateNow(st))}
        st1 == [st EXCEPT !.bannedUsers = [id \in kept |-> @[id]]]
    IN  Return(Emit(st1, [to |-> sid, ev |-> "banned_users_list",
                          bannedUsers |-> kept]),
               "admin_action:get_banned_users")

\* 'unban' (1108-1114)
admin_unban(st, sid, target) ==
    IF target # Null
    THEN Return(AdminResponse([st EXCEPT !.bannedUsers = MapRemove(@, target)],
                              sid, TRUE),
                "admin_action:unban:ok")
    ELSE Return(st, "admin_action:unban:no_target")

\* 'clear_history' (915-931)
admin_clear_history(st, sid) ==
    LET st1 == [st EXCEPT !.chatHistory = << >>, !.messageReactions = EmptyMap]
        st2 == Emit(SystemNotice(st1, "clear"),
                    [to |-> Broadcast, ev |-> "history_cleared"])
    IN  Return(AdminResponse(st2, sid, TRUE), "admin_action:clear_history")

\* 'broadcast' (933-945): value is the text
admin_broadcast(st, sid, value) ==
    IF value # Null
    THEN Return(AdminResponse(SystemMessage(st, "broadcast"), sid, TRUE),
                "admin_action:broadcast:ok")
    ELSE Return(st, "admin_action:broadcast:no_value")

\* 'set_private' (974-981): value is a boolean
admin_set_private(st, sid, value) ==
    Return(AdminResponse([st EXCEPT !.serverConfig.isPrivate = value], sid, TRUE),
           "admin_action:set_private")

\* 'set_access_code' (983-989): value is a string
admin_set_access_code(st, sid, value) ==
    IF value # ""
    THEN Return(AdminResponse([st EXCEPT !.serverConfig.accessCode = value],
                              sid, TRUE),
                "admin_action:set_access_code:ok")
    ELSE Return(st, "admin_action:set_access_code:no_value")

\* 'slow_mode' (991-1003): value is a number of seconds
admin_slow_mode(st, sid, value) ==
    LET st1 == [st EXCEPT !.serverConfig.slowMode = value]
    IN  Return(AdminResponse(SystemNotice(st1, "slow_mode"), sid, TRUE),
               "admin_action:slow_mode")

\* 'mute_all' (1005-1020) and 'unmute_all' (1022-1032)
admin_mute_all(st, sid) ==
    LET st1 == [st EXCEPT !.serverConfig.globalMute = ~@]
    IN  Return(AdminResponse(SystemNotice(st1, "mute_all"), sid, TRUE),
               "admin_action:mute_all")

admin_unmute_all(st, sid) ==
    LET st1 == [st EXCEPT !.serverConfig.globalMute = FALSE]
    IN  Return(AdminResponse(SystemNotice(st1, "unmute_all"), sid, TRUE),
               "admin_action:unmute_all")

admin_action(st, sid, password, action, target, value, duration) ==
    IF password # ADMIN_PASSWORD
    THEN Return(AdminResponse(st, sid, FALSE), "admin_action:wrong_password")
    ELSE CASE action = "rename" -> admin_rename(st, sid, target, value)
           [] action = "kick" -> admin_kick(st, sid, target)
           [] action = "ban" -> admin_ban(st, sid, target, duration)
           [] action = "get_banned_users" -> admin_get_banned_users(st, sid)
           [] action = "unban" -> admin_unban(st, sid, target)
           [] action = "clear_history" -> admin_clear_history(st, sid)
           [] action = "broadcast" -> admin_broadcast(st, sid, value)
           [] action = "set_private" -> admin_set_private(st, sid, value)
           [] action = "set_access_code" -> admin_set_access_code(st, sid, value)
           [] action = "slow_mode" -> admin_slow_mode(st, sid, value)
           [] action = "mute_all" -> admin_mute_all(st, sid)
           [] action = "unmute_all" -> admin_unmute_all(st, sid)
           [] OTHER -> Return(AdminResponse(st, sid, FALSE), "admin_action:unknown")


(***************************************************************************)
(* GET /admin/reset (src/server.js:468-499): an HTTP route, with a key of  *)
(* its own.                                                                *)
(***************************************************************************)
ADMIN_KEY == "docspace2024"

admin_reset(st, key) ==
    IF key # ADMIN_KEY
    THEN Return(st, "admin_reset:refused")
    ELSE LET st1 == [st EXCEPT !.chatHistory = << >>,
                               !.messageReactions = EmptyMap,
                               !.messageId = 1]
         IN  Return(SystemNotice(st1, "reset"), "admin_reset:ok")

(***************************************************************************)
(* The game engine.  A player is [username, socket]; a game is             *)
(* [id, type, players, board, currentTurn], players[1] being player 0.     *)
(* A tic-tac-toe board maps the cell indices to '', 'X' or 'O'; a          *)
(* four-in-a-row board maps <<row, col>> to '', 'red' or 'yellow'.  A      *)
(* JavaScript array grows when an index outside it is written, so both are *)
(* functions whose domain is the set of indices written so far.            *)
(***************************************************************************)
symbols == <<"X", "O">>
colors == <<"red", "yellow">>

\* initGameState (src/server.js:2180-2189)
initGameState(gameType) ==
    CASE gameType = "tictactoe" -> [i \in 0 .. TTT_CELLS - 1 |-> ""]
      [] gameType = "connect4" ->
            [rc \in (0 .. C4_ROWS - 1) \X (0 .. C4_COLS - 1) |-> ""]
      [] OTHER -> EmptyMap

\* board[i], '' standing for every falsy value, undefined included
At(board, i) == IF i \in DOMAIN board THEN board[i] ELSE ""

\* the lines without the diagonal 2-4-6
linesSeven == << <<0, 1, 2>>, <<3, 4, 5>>, <<6, 7, 8>>, <<0, 3, 6>>, <<1, 4, 7>>,
                 <<2, 5, 8>>, <<0, 4, 8>> >>

\* checkTTTWinner (src/server.js:2247-2255)
lines == << <<0, 1, 2>>, <<3, 4, 5>>, <<6, 7, 8>>, <<0, 3, 6>>, <<1, 4, 7>>,
            <<2, 5, 8>>, <<0, 4, 8>>, <<2, 4, 6>> >>

checkTTTWinner(board) ==
    LET hit == {k \in 1 .. Len(lines) :
                   /\ At(board, lines[k][1]) # ""
                   /\ At(board, lines[k][1]) = At(board, lines[k][2])
                   /\ At(board, lines[k][1]) = At(board, lines[k][3])}
    IN  IF hit = {} THEN "" ELSE At(board, lines[MinOf(hit)][1])

\* the axes without the diagonal [1, -1]
directionsThree == << <<0, 1>>, <<1, 0>>, <<1, 1>> >>

\* checkC4Winner (src/server.js:2257-2274)
directions == << <<0, 1>>, <<1, 0>>, <<1, 1>>, <<1, -1>> >>

\* the cells counted from (row, col) along d in the sense dir: the inner loop
\* stops at the first cell that is off the board or not the player's
RECURSIVE c4Run(_, _, _, _, _, _, _)
c4Run(board, row, col, player, d, dir, i) ==
    LET r == row + d[1] * i * dir
        c == col + d[2] * i * dir
    IN  IF /\ i < 4
           /\ r >= 0 /\ r < C4_ROWS /\ c >= 0 /\ c < C4_COLS
           /\ At(board, <<r, c>>) = player
        THEN 1 + c4Run(board, row, col, player, d, dir, i + 1)
        ELSE 0

c4Count(board, row, col, player, d) ==
    1 + c4Run(board, row, col, player, d, -1, 1)
      + c4Run(board, row, col, player, d, 1, 1)

checkC4Winner(board, row, col, player) ==
    IF \E k \in 1 .. Len(directions) :
          c4Count(board, row, col, player, directions[k]) >= 4
    THEN player ELSE ""

\* Array.prototype.includes(''): over the indices 0 .. length - 1
ArrayLength(board) == IF DOMAIN board \cap Nat = {} THEN 0
                      ELSE MaxOf(DOMAIN board \cap Nat) + 1
includesEmpty(board) ==
    \E i \in 0 .. ArrayLength(board) - 1 : i \in DOMAIN board /\ board[i] = ""

\* board[0].every(cell => cell): over the elements of row 0
row0Full(board) ==
    \A rc \in DOMAIN board : (rc[1] = 0 /\ rc[2] >= 0) => board[rc] # ""

\* a search from the top: the piece stays in the highest empty row
c4RowTop(board, col) ==
    LET free == {r \in 0 .. C4_ROWS - 1 : At(board, <<r, col>>) = ""}
    IN  IF free = {} THEN -1 ELSE MinOf(free)

\* the row a piece dropped in col lands in: for (r = 5; r >= 0; r--), or -1
c4Row(board, col) ==
    LET free == {r \in 0 .. C4_ROWS - 1 : At(board, <<r, col>>) = ""}
    IN  IF free = {} THEN -1 ELSE MaxOf(free)

\* applyGameMove (src/server.js:2192-2245): the game after the call (the
\* board is changed in place) and the result returned.  move.index and
\* move.col are both the number move.
\* a result that leaves the turn with the mover
MoveResultSameTurn(game, playerIndex, winner, draw) ==
    [valid |-> TRUE,
     nextTurn |-> IF winner # "" \/ draw THEN -1 ELSE playerIndex,
     winner |-> IF winner # "" THEN game.players[playerIndex + 1].username ELSE Null,
     draw |-> draw]

\* a result that passes the turn on after a win or a draw too
MoveResultNoSentinel(game, playerIndex, winner, draw) ==
    [valid |-> TRUE,
     nextTurn |-> (playerIndex + 1) % 2,
     winner |-> IF winner # "" THEN game.players[playerIndex + 1].username ELSE Null,
     draw |-> draw]

MoveResult(game, playerIndex, winner, draw) ==
    [valid |-> TRUE,
     nextTurn |-> IF winner # "" \/ draw THEN -1 ELSE (playerIndex + 1) % 2,
     winner |-> IF winner # "" THEN game.players[playerIndex + 1].username ELSE Null,
     draw |-> draw]

Invalid == [valid |-> FALSE]

\* a move that takes the cell whatever it holds
applyTTTOverwrite(game, move, playerIndex) ==
    LET board == MapPut(game.board, move, symbols[playerIndex + 1])
        winner == checkTTTWinner(board)
        draw == winner = "" /\ ~includesEmpty(board)
    IN  [game |-> [game EXCEPT !.board = board],
         res |-> MoveResult(game, playerIndex, winner, draw)]

applyTTT(game, move, playerIndex) ==
    IF At(game.board, move) # ""
    THEN [game |-> game, res |-> Invalid]
    ELSE LET board == MapPut(game.board, move, symbols[playerIndex + 1])
             winner == checkTTTWinner(board)
             draw == winner = "" /\ ~includesEmpty(board)
         IN  [game |-> [game EXCEPT !.board = board],
              res |-> MoveResult(game, playerIndex, winner, draw)]

applyC4(game, move, playerIndex) ==
    LET row == c4Row(game.board, move)
    IN  IF row = -1
        THEN [game |-> game, res |-> Invalid]
        ELSE LET board == MapPut(game.board, <<row, move>>, colors[playerIndex + 1])
                 winner == checkC4Winner(board, row, move, colors[playerIndex + 1])
                 draw == winner = "" /\ row0Full(board)
             IN  [game |-> [game EXCEPT !.board = board],
                  res |-> MoveResult(game, playerIndex, winner, draw)]

applyGameMove(game, move, playerIndex) ==
    CASE game.type = "tictactoe" -> applyTTT(game, move, playerIndex)
      [] game.type = "connect4" -> applyC4(game, move, playerIndex)
      [] OTHER -> [game |-> game, res |-> Invalid]

(***************************************************************************)
(* game_invite (src/server.js:2008-2047).  The invite id is the string     *)
(* `${from}-${to}-${Date.now()}`, modelled as the triple.                  *)
(***************************************************************************)
game_invite(st, sid, to, gameType) ==
    IF ~HasUser(st.connectedUsers, sid)
    THEN Return(st, "game_invite:no_user")
    ELSE
      LET sender == GetUser(st.connectedUsers, sid)
          r == LastMatch(st.connectedUsers, LAMBDA u : u.username = to)
      IN  IF r = 0
          THEN Return(st, "game_invite:no_recipient")
          ELSE
            LET recipientSocket == st.connectedUsers[r].id
                inviteId == <<sender.username, to, st.now>>
                invite == [from |-> sender.username, fromSocket |-> sid,
                           to |-> to, toSocket |-> recipientSocket,
                           gameType |-> gameType]
                st1 == [st EXCEPT !.gameInvites = MapPut(@, inviteId, invite)]
                st2 == Emit(st1, [to |-> recipientSocket,
                                  ev |-> "game_invite_received",
                                  inviteId |-> inviteId])
            IN  Return(Emit(st2, [to |-> sid, ev |-> "game_invite_sent"]),
                       "game_invite:ok")

(***************************************************************************)
(* game_accept (src/server.js:2050-2093).  The game id is the string       *)
(* `game-${Date.now()}`, modelled as the time.                             *)
(***************************************************************************)
\* a game record with the invitee first
NewGameInviteeFirst(invite, gameId) ==
    [id |-> gameId, type |-> invite.gameType,
     players |-> << [username |-> invite.to, socket |-> invite.toSocket],
                    [username |-> invite.from, socket |-> invite.fromSocket] >>,
     board |-> initGameState(invite.gameType),
     currentTurn |-> 0]

NewGame(invite, gameId) ==
    [id |-> gameId, type |-> invite.gameType,
     players |-> << [username |-> invite.from, socket |-> invite.fromSocket],
                    [username |-> invite.to, socket |-> invite.toSocket] >>,
     board |-> initGameState(invite.gameType),
     currentTurn |-> 0]

game_accept(st, sid, inviteId) ==
    IF inviteId \notin DOMAIN st.gameInvites
    THEN Return(st, "game_accept:no_invite")
    ELSE
      LET invite == st.gameInvites[inviteId]
          gameId == st.now
          st1 == [st EXCEPT !.activeGames = MapPut(@, gameId, NewGame(invite, gameId)),
                            !.gameInvites = MapRemove(@, inviteId)]
          st2 == Emit(st1, [to |-> invite.fromSocket, ev |-> "game_start",
                            gameId |-> gameId, yourTurn |-> TRUE,
                            playerIndex |-> 0])
          st3 == Emit(st2, [to |-> invite.toSocket, ev |-> "game_start",
                            gameId |-> gameId, yourTurn |-> FALSE,
                            playerIndex |-> 1])
      IN  Return(st3, "game_accept:ok")

(***************************************************************************)
(* game_decline (src/server.js:2096-2108).                                 *)
(***************************************************************************)
game_decline(st, sid, inviteId) ==
    IF inviteId \notin DOMAIN st.gameInvites
    THEN Return(st, "game_decline:no_invite")
    ELSE
      LET invite == st.gameInvites[inviteId]
          st1 == Emit(st, [to |-> invite.fromSocket, ev |-> "game_declined"])
      IN  Return([st1 EXCEPT !.gameInvites = MapRemove(@, inviteId)],
                 "game_decline:ok")

(***************************************************************************)
(* game_move (src/server.js:2111-2153).                                    *)
(***************************************************************************)
\* game.players.findIndex(p => p.username === user.username), -1 when none
findPlayerIndex(game, user) ==
    LET hit == {k \in 1 .. Len(game.players) :
                   game.players[k].username = user.username}
    IN  IF hit = {} THEN -1 ELSE MinOf(hit) - 1

GameUpdate(game, idx, res, user) ==
    [to |-> game.players[idx + 1].socket, ev |-> "game_update",
     gameId |-> game.id, state |-> game.board,
     yourTurn |-> (idx = game.currentTurn),
     lastMoveBy |-> user.username,
     winner |-> res.winner, draw |-> res.draw]

game_move(st, sid, gameId, move) ==
    IF gameId \notin DOMAIN st.activeGames
    THEN Return(st, "game_move:no_game")
    ELSE IF ~HasUser(st.connectedUsers, sid)
    THEN Return(st, "game_move:no_user")
    ELSE
      LET game == st.activeGames[gameId]
          user == GetUser(st.connectedUsers, sid)
          playerIndex == findPlayerIndex(game, user)
      IN  IF playerIndex = -1
          THEN Return(st, "game_move:not_player")
          ELSE IF playerIndex # game.currentTurn
          THEN Return(st, "game_move:not_turn")
          ELSE
            LET applied == applyGameMove(game, move, playerIndex)
                res == applied.res
                st0 == [st EXCEPT !.result = Append(@, res)]
            IN  IF ~res.valid
                THEN Return([st0 EXCEPT !.activeGames[gameId] = applied.game],
                            "game_move:invalid")
                ELSE
                  LET game1 == [applied.game EXCEPT !.currentTurn = res.nextTurn]
                      st1 == [st0 EXCEPT !.activeGames[gameId] = game1]
                      st2 == Emit(Emit(st1, GameUpdate(game1, 0, res, user)),
                                  GameUpdate(game1, 1, res, user))
                  IN  IF res.winner # Null \/ res.draw
                      THEN Return([st2 EXCEPT !.activeGames = MapRemove(@, gameId)],
                                  "game_move:over")
                      ELSE Return(st2, "game_move:ok")

(***************************************************************************)
(* game_quit (src/server.js:2156-2176).                                    *)
(***************************************************************************)
RECURSIVE NotifyQuit(_, _, _, _)
NotifyQuit(st, game, user, k) ==
    IF k > Len(game.players) THEN st
    ELSE NotifyQuit(IF game.players[k].username # user.username
                    THEN Emit(st, [to |-> game.players[k].socket,
                                   ev |-> "game_opponent_quit",
                                   gameId |-> game.id])
                    ELSE st,
                    game, user, k + 1)

game_quit(st, sid, gameId) ==
    IF gameId \notin DOMAIN st.activeGames
    THEN Return(st, "game_quit:no_game")
    ELSE IF ~HasUser(st.connectedUsers, sid)
    THEN Return(st, "game_quit:no_user")
    ELSE
      LET game == st.activeGames[gameId]
          user == GetUser(st.connectedUsers, sid)
          st1 == NotifyQuit(st, game, user, 1)
      IN  Return([st1 EXCEPT !.activeGames = MapRemove(@, gameId)],
                 "game_quit:ok")


(***************************************************************************)
(* The actions: one per inbound event, enabled for a socket that is still  *)
(* open, and the passing of time.                                          *)
(***************************************************************************)
UserJoin(sid, username, accessCode) ==
    /\ sid \notin closed
    /\ Becomes(user_join(State, sid, username, accessCode))

Disconnect(sid) ==
    /\ sid \notin closed
    /\ Becomes(Return(disconnect(State, sid), "disconnect"))

ChangeUsername(sid, newUsername) ==
    /\ sid \notin closed
    /\ Becomes(change_username(State, sid, newUsername))

AdminAction(sid, password, action, target, value, duration) ==
    /\ sid \notin closed
    /\ Becomes(admin_action(State, sid, password, action, target, value, duration))

SendMessage(sid, channel, content, attachment) ==
    /\ sid \notin closed
    /\ Becomes(send_message(State, sid, channel, content, attachment))

GeminiResponse(sid, channel, content) ==
    /\ sid \notin closed
    /\ Becomes(gemini_response(State, sid, channel, content))

SwitchChannel(sid, channel) ==
    /\ sid \notin closed
    /\ Becomes(switch_channel(State, sid, channel))

Reaction(sid, msgId, emoji, action) ==
    /\ sid \notin closed
    /\ Becomes(reaction(State, sid, msgId, emoji, action))

AdminLogin(sid, password, username) ==
    /\ sid \notin closed
    /\ Becomes(admin_login(State, sid, password, username))

(***************************************************************************)
(* Polls.  An option index is modelled by the property key it is read      *)
(* with: "0" and "1" name the options of a poll of two, "length" names     *)
(* the length of the array of options.                                     *)
(***************************************************************************)
PollId(n) == "poll_" \o ToString(n)

\* the place in options that a property key names, 0 when it names none
optionAt(options, optionIndex) ==
    LET at == {i \in 1 .. Len(options) : ToString(i - 1) = optionIndex}
    IN  IF at = {} THEN 0 ELSE CHOOSE i \in at : TRUE

create_poll(st, sid, question, options, channel) ==
    IF ~HasUser(st.connectedUsers, sid) THEN Return(st, "create_poll:no_user")
    ELSE
      LET user == GetUser(st.connectedUsers, sid)
          pollId == PollId(st.pollIdCounter)
          poll == [id |-> pollId, question |-> question,
                   options |-> [i \in 1 .. Len(options) |->
                                   [text |-> options[i], votes |-> 0]],
                   channel |-> ChannelOr(channel),
                   creator |-> user.username, createdAt |-> st.now]
          st1 == [st EXCEPT !.pollIdCounter = @ + 1,
                            !.polls = MapPut(@, pollId, poll),
                            !.pollVotes = MapPut(@, pollId, EmptyMap)]
      IN  Return(Emit(st1, [to |-> Broadcast, ev |-> "poll_created",
                            poll |-> poll]),
                 "create_poll:ok")

vote_poll(st, sid, pollId, optionIndex) ==
    IF ~HasUser(st.connectedUsers, sid) THEN Return(st, "vote_poll:no_user")
    ELSE IF pollId \notin DOMAIN st.polls
    THEN Return(Emit(st, [to |-> sid, ev |-> "vote_response", success |-> FALSE]),
                "vote_poll:not_found")
    ELSE
      LET user == GetUser(st.connectedUsers, sid)
          poll == st.polls[pollId]
          votesOf == IF pollId \in DOMAIN st.pollVotes
                     THEN st.pollVotes[pollId] ELSE EmptyMap
      IN  IF user.username \in DOMAIN votesOf
          THEN Return(Emit(st, [to |-> sid, ev |-> "vote_response",
                                success |-> FALSE]),
                      "vote_poll:already_voted")
          ELSE
            LET at == optionAt(poll.options, optionIndex)
                \* options[optionIndex].votes++: on "length" the increment
                \* goes to a number and is lost
                poll1 == IF at = 0 THEN poll
                         ELSE [poll EXCEPT !.options[at].votes = @ + 1]
                recorded == [st EXCEPT
                          !.pollVotes = MapPut(@, pollId,
                              MapPut(votesOf, user.username, optionIndex))]
                st1 == [recorded EXCEPT !.polls = MapPut(@, pollId, poll1)]
                st2 == Emit(st1, [to |-> sid, ev |-> "vote_response",
                                  success |-> TRUE, pollId |-> pollId,
                                  optionIndex |-> optionIndex])
            IN  \* options[optionIndex] is undefined: reading votes throws
                IF at = 0 /\ optionIndex # "length"
                THEN uncaughtException(recorded)
                ELSE Return(Emit(st2, [to |-> Broadcast, ev |-> "poll_update",
                                       poll |-> poll1]),
                            "vote_poll:ok")

CreatePoll(sid, question, options, channel) ==
    /\ sid \notin closed
    /\ Becomes(create_poll(State, sid, question, options, channel))

VotePoll(sid, pollId, optionIndex) ==
    /\ sid \notin closed
    /\ Becomes(vote_poll(State, sid, pollId, optionIndex))

(***************************************************************************)
(* Direct messages.  A thread key is the two names, sorted and joined with *)
(* ':'.                                                                    *)
(***************************************************************************)
\* the UTF-16 code of the characters the names of the model are made of
charCodeAt(c) ==
    CASE c = " " -> 32 [] c = ":" -> 58
      [] c = "A" -> 65 [] c = "B" -> 66 [] c = "C" -> 67
      [] c = "a" -> 97 [] c = "b" -> 98 [] c = "c" -> 99
      [] c = "x" -> 120 [] c = "y" -> 121 [] c = "z" -> 122
      [] OTHER -> 0

\* s < t as JavaScript compares strings
RECURSIVE lessThan(_, _)
lessThan(s, t) ==
    IF t = << >> THEN FALSE
    ELSE IF s = << >> THEN TRUE
    ELSE IF Head(s) = Head(t) THEN lessThan(Tail(s), Tail(t))
    ELSE charCodeAt(Head(s)) < charCodeAt(Head(t))

\* the two names in the order given
unsortedPair(a, b) == <<a, b>>

\* [a, b].sort()
sortedPair(a, b) == IF lessThan(b, a) THEN <<b, a>> ELSE <<a, b>>

\* [sender.username, to].sort().join(':')
dmKey(a, b) == sortedPair(a, b)[1] \o <<":">> \o sortedPair(a, b)[2]

ThreadAt(dm, key) == IF key \in DOMAIN dm THEN dm[key] ELSE << >>

\* send_dm (1860-1916)
send_dm(st, sid, to, content, attachment) ==
    IF ~HasUser(st.connectedUsers, sid) THEN Return(st, "send_dm:no_user")
    ELSE IF to = Null \/ (content = Null /\ ~attachment)
    THEN Return(st, "send_dm:ignored")
    ELSE
      LET sender == GetUser(st.connectedUsers, sid)
          key == dmKey(sender.username, to)
          message == [from |-> sender.username, to |-> to, content |-> content,
                      attachment |-> attachment, timestamp |-> DateNow(st)]
          pushed == Append(ThreadAt(st.dmHistory, key), message)
          st1 == [st EXCEPT !.dmHistory = MapPut(@, key, sliceLast(pushed, DM_MAX))]
          recipient == LastMatch(st.connectedUsers, LAMBDA u : u.username = to)
      IN  Return(IF recipient # 0
                 THEN Emit(st1, [to |-> st.connectedUsers[recipient].id,
                                 ev |-> "dm_received", from |-> sender.username,
                                 content |-> content])
                 ELSE st1,
                 "send_dm:ok")

\* get_dm_history (1987-1999)
get_dm_history(st, sid, username) ==
    IF ~HasUser(st.connectedUsers, sid) THEN Return(st, "get_dm_history:no_user")
    ELSE Return(Emit(st, [to |-> sid, ev |-> "dm_history", username |-> username,
                          messages |-> ThreadAt(st.dmHistory,
                              dmKey(GetUser(st.connectedUsers, sid).username,
                                    username))]),
                "get_dm_history:ok")

SendDm(sid, to, content, attachment) ==
    /\ sid \notin closed
    /\ Becomes(send_dm(State, sid, to, content, attachment))

GetDmHistory(sid, username) ==
    /\ sid \notin closed
    /\ Becomes(get_dm_history(State, sid, username))

AdminReset(key) == Becomes(admin_reset(State, key))

TypingStart(sid, channel) ==
    /\ sid \notin closed
    /\ Becomes(typing_start(State, sid, channel))

TypingStop(sid) ==
    /\ sid \notin closed
    /\ Becomes(typing_stop(State, sid))

ExpireTyping == Becomes(expireTyping(State))

EditMessage(sid, msgId, newContent) ==
    /\ sid \notin closed
    /\ Becomes(edit_message(State, sid, msgId, newContent))

DeleteMessage(sid, msgId, password) ==
    /\ sid \notin closed
    /\ Becomes(delete_message(State, sid, msgId, password))

GameInvite(sid, to, gameType) ==
    /\ sid \notin closed
    /\ Becomes(game_invite(State, sid, to, gameType))

GameAccept(sid, inviteId) ==
    /\ sid \notin closed
    /\ Becomes(game_accept(State, sid, inviteId))

GameDecline(sid, inviteId) ==
    /\ sid \notin closed
    /\ Becomes(game_decline(State, sid, inviteId))

GameMove(sid, gameId, move) ==
    /\ sid \notin closed
    /\ Becomes(game_move(State, sid, gameId, move))

GameQuit(sid, gameId) ==
    /\ sid \notin closed
    /\ Becomes(game_quit(State, sid, gameId))

\* process.exit, from server.close's callback or the timer of 10 s
ProcessExit ==
    /\ process = "shutting_down"
    /\ process' = "exited"
    /\ branch' = "exit"
    /\ emitted' = << >>
    /\ UNCHANGED <<connectedUsers, closed, messageId, chatHistory,
                   messageReactions, adminUsersList, bannedUsers, serverConfig,
                   gameInvites, activeGames, now, loadedMessageId,
                   channelHistories, lastMessageTime, polls, pollVotes,
                   pollIdCounter, typingUsers, dmHistory, result, probe>>

\* d milliseconds pass
Tick(d) ==
    /\ now + d <= MaxTime
    /\ Becomes(Return([State EXCEPT !.now = @ + d], "tick"))

(***************************************************************************)
(* Inputs.                                                                 *)
(***************************************************************************)
LongName(c) == [i \in 1 .. NAME_MAX + 1 |-> IF i <= NAME_MAX THEN "b" ELSE c]

JoinNames == {<<"a">>, <<"A">>, <<" ", "a", " ">>, <<" ">>, << >>,
              LongName("x"), LongName("y")}
RenameNames == {<<"a">>, <<"A">>, <<"b", " ">>, <<" ">>}
AdminTargets == {<<"a">>, <<"B">>}
AdminValues == {<<"a">>, <<" ", "a">>, << >>}
Passwords == {ADMIN_PASSWORD, "guess"}
AccessCodes == {""}

(***************************************************************************)
(* SpecJoin: user_join and disconnect alone.                               *)
(***************************************************************************)
NextJoin ==
    \/ \E sid \in Sockets, n \in JoinNames, code \in AccessCodes :
          UserJoin(sid, n, code)
    \/ \E sid \in Sockets : Disconnect(sid)

SpecJoin == Init /\ [][NextJoin]_vars

(***************************************************************************)
(* SpecSession: the session registry, with both kinds of rename.           *)
(***************************************************************************)
NextSession ==
    \/ \E sid \in Sockets, n \in JoinNames, code \in AccessCodes :
          UserJoin(sid, n, code)
    \/ \E sid \in Sockets : Disconnect(sid)
    \/ \E sid \in Sockets, n \in RenameNames : ChangeUsername(sid, n)
    \/ \E sid \in Sockets, pw \in Passwords, a \in {"rename", "kick", "noop"},
          target \in AdminTargets, value \in AdminValues :
          AdminAction(sid, pw, a, target, value, 0)

SpecSession == Init /\ [][NextSession]_vars

(***************************************************************************)
(* SpecGame: the session registry and the game engine together: three      *)
(* connections, tic-tac-toe on one cell.  Time stands still, so every game *)
(* gets the id `game-0`.                                                   *)
(***************************************************************************)
GameNames == {<<"a">>, <<"b">>}
GameRenames == {<<"c">>}
GameTypes == {"tictactoe"}
GameIds == {0}
Inviters == {1}
Invitees == {<<"b">>}
InviteIds == (GameNames \cup GameRenames) \X Invitees \X {0}
GameMoves == {0}

NextGame ==
    \/ \E sid \in Sockets, n \in GameNames : UserJoin(sid, n, "")
    \/ \E sid \in Sockets : Disconnect(sid)
    \/ \E sid \in Sockets, n \in GameRenames : ChangeUsername(sid, n)
    \/ \E sid \in Inviters, to \in Invitees, gt \in GameTypes :
          GameInvite(sid, to, gt)
    \/ \E sid \in Sockets, iid \in InviteIds : GameAccept(sid, iid)
    \/ \E sid \in Sockets, iid \in InviteIds : GameDecline(sid, iid)
    \/ \E sid \in Sockets, gid \in GameIds, move \in GameMoves :
          GameMove(sid, gid, move)
    \/ \E sid \in Sockets, gid \in GameIds : GameQuit(sid, gid)

SpecGame == Init /\ [][NextGame]_vars

(***************************************************************************)
(* SpecPlay: two players, every cell and a few columns: the boards that    *)
(* play reaches.  Socket 1 joins as "a", socket 2 as "b", and time stands  *)
(* still, so there is one game id.                                         *)
(***************************************************************************)
PlaySockets == {1, 2}
PlayName(sid) == IF sid = 1 THEN <<"a">> ELSE <<"b">>
PlayTypes == {"tictactoe", "connect4"}
TTTMoves == 0 .. TTT_CELLS - 1
C4Moves == {0, 1}
\* the moves a client of the game sends
PlayMoves(gid) ==
    IF gid \notin DOMAIN activeGames THEN {0}
    ELSE IF activeGames[gid].type = "tictactoe" THEN TTTMoves ELSE C4Moves

NextPlay ==
    \/ \E sid \in PlaySockets :
          ~HasUser(connectedUsers, sid) /\ UserJoin(sid, PlayName(sid), "")
    \/ \E gt \in PlayTypes : GameInvite(1, PlayName(2), gt)
    \/ \E sid \in PlaySockets : GameAccept(sid, <<PlayName(1), PlayName(2), 0>>)
    \/ \E sid \in PlaySockets, move \in PlayMoves(0) : GameMove(sid, 0, move)
    \/ \E sid \in PlaySockets : GameQuit(sid, 0)

SpecPlay == Init /\ [][NextPlay]_vars

(***************************************************************************)
(* SpecRange: the two players of SpecPlay with a move inside the board,    *)
(* cell or column 0, and one outside it, cell or column 9.                 *)
(***************************************************************************)
RangeMoves == {0, TTT_CELLS}

NextRange ==
    \/ \E sid \in PlaySockets :
          ~HasUser(connectedUsers, sid) /\ UserJoin(sid, PlayName(sid), "")
    \/ \E gt \in PlayTypes : GameInvite(1, PlayName(2), gt)
    \/ \E sid \in PlaySockets : GameAccept(sid, <<PlayName(1), PlayName(2), 0>>)
    \/ \E sid \in PlaySockets, move \in RangeMoves : GameMove(sid, 0, move)

SpecRange == Init /\ [][NextRange]_vars

(***************************************************************************)
(* SpecC4Win: applyGameMove on four-in-a-row boards as a function of the   *)
(* board.  The board holds, around the cell the piece will land in, either *)
(* any pieces below it (the vertical axis) or opponent pieces below it and *)
(* any pieces and gaps within three cells along one other axis.            *)
(***************************************************************************)
ProbePlayers == << [username |-> <<"a">>, socket |-> 1],
                   [username |-> <<"b">>, socket |-> 2] >>

ProbeGame(board, playerIndex) ==
    [id |-> 0, type |-> "connect4", players |-> ProbePlayers, board |-> board,
     currentTurn |-> playerIndex]

OnBoard(r, c) == r >= 0 /\ r < C4_ROWS /\ c >= 0 /\ c < C4_COLS

Below(r) == (r + 1) .. (C4_ROWS - 1)

VerticalBoard(r, c, f) ==
    [rc \in DOMAIN initGameState("connect4") |->
        IF rc[2] = c /\ rc[1] \in Below(r) THEN f[rc[1]] ELSE ""]

AxisOffsets(r, c, d) ==
    {i \in (-3 .. 3) \ {0} : OnBoard(r + d[1] * i, c + d[2] * i)}

AxisBoard(r, c, d, opponent, f) ==
    [rc \in DOMAIN initGameState("connect4") |->
        IF rc[2] = c /\ rc[1] \in Below(r) THEN opponent
        ELSE IF \E i \in DOMAIN f : rc = <<r + d[1] * i, c + d[2] * i>>
        THEN f[CHOOSE i \in DOMAIN f : rc = <<r + d[1] * i, c + d[2] * i>>]
        ELSE ""]

InitC4Win ==
    /\ InitServer
    /\ \E r \in 0 .. C4_ROWS - 1, c \in 0 .. C4_COLS - 1, p \in {0, 1} :
          \/ \E f \in [Below(r) -> {"red", "yellow"}] :
                probe = [game |-> ProbeGame(VerticalBoard(r, c, f), p),
                         move |-> c, playerIndex |-> p, out |-> << >>]
          \/ \E d \in {<<0, 1>>, <<1, 1>>, <<1, -1>>} :
                \E f \in [AxisOffsets(r, c, d) -> {"", "red", "yellow"}] :
                   probe = [game |-> ProbeGame(AxisBoard(r, c, d, colors[2 - p], f), p),
                            move |-> c, playerIndex |-> p, out |-> << >>]

ApplyProbe ==
    /\ probe.out = << >>
    /\ probe' = [probe EXCEPT !.out =
                    <<applyGameMove(probe.game, probe.move, probe.playerIndex)>>]
    /\ UNCHANGED <<server, emitted, branch, result>>

SpecC4Win == InitC4Win /\ [][ApplyProbe]_vars

(***************************************************************************)
(* SpecLogs: the logs at their bounds.  The server starts with a unified   *)
(* log of LoadedSizes messages, as n accepted send_message events to the   *)
(* first channel leave it, and the last MAX_CHANNEL_HISTORY of them in     *)
(* that channel's log (loadPersistedData, src/server.js:173-239).          *)
(***************************************************************************)
LoadedSizes == {MAX_CHANNEL_HISTORY - 1, MAX_HISTORY - 1}

LoadedMessage(i) ==
    [id |-> i, type |-> "user", username |-> <<"a">>,
     channel |-> AVAILABLE_CHANNELS[1], content |-> <<"h">>, attachment |-> FALSE,
     timestamp |-> START_TIME - 1, userId |-> NO_USER_ID, edited |-> FALSE]

InitLogs ==
    /\ InitSessions
    /\ \E n \in LoadedSizes :
          /\ loadedMessageId = n + 1
          /\ messageId = n + 1
          /\ chatHistory = [i \in 1 .. n |-> LoadedMessage(i)]
          /\ channelHistories =
                [ch \in Channels |->
                    IF ch = AVAILABLE_CHANNELS[1]
                    THEN sliceLast([i \in 1 .. n |-> LoadedMessage(i)],
                                   MAX_CHANNEL_HISTORY)
                    ELSE << >>]
    /\ messageReactions = EmptyMap
    /\ dmHistory = EmptyMap
    /\ probe = NoProbe

LogSockets == {1, 2}
LogName(sid) == IF sid = 1 THEN <<"a">> ELSE <<"b">>
LogChannels == {"", "jeux", "cave"}
LogContents == {<<"h">>, << >>}

NextLogs ==
    \/ \E sid \in LogSockets : UserJoin(sid, LogName(sid), "")
    \/ \E sid \in LogSockets : Disconnect(sid)
    \/ \E ch \in LogChannels, content \in LogContents :
          SendMessage(1, ch, content, FALSE)
    \/ \E ch \in LogChannels : GeminiResponse(1, ch, <<"h">>)
    \/ \E ch \in LogChannels : SwitchChannel(2, ch)
    \/ \E a \in {"broadcast", "kick", "ban", "rename"} :
          AdminAction(1, ADMIN_PASSWORD, a, <<"b">>, <<"c">>, 0)

SpecLogs == InitLogs /\ [][NextLogs]_vars

(***************************************************************************)
(* SpecDelete: messages, their deletion and the reactions to them, from an *)
(* empty server.  Every message sent has a content, so every id issued is  *)
(* the id of a logged message, and the logs stay far below their bounds.   *)
(***************************************************************************)
DeleteSockets == {1, 2}
MessageIds == 0 .. 2
Emojis == {"+"}

NextDelete ==
    \/ \E sid \in DeleteSockets :
          ~HasUser(connectedUsers, sid) /\ UserJoin(sid, LogName(sid), "")
    \/ \E sid \in DeleteSockets : SendMessage(sid, "", <<"h">>, FALSE)
    \/ \E sid \in DeleteSockets : SwitchChannel(sid, AVAILABLE_CHANNELS[1])
    \/ \E sid \in DeleteSockets, m \in MessageIds, pw \in Passwords :
          DeleteMessage(sid, m, pw)
    \/ \E sid \in DeleteSockets, m \in MessageIds, e \in Emojis,
          a \in {"add", "remove"} : Reaction(sid, m, e, a)

SpecDelete == Init /\ [][NextDelete]_vars

(***************************************************************************)
(* SpecBan: bans and their expiry.  Socket 1 is the administrator's and    *)
(* never joins; the others join under names that differ from the banned    *)
(* names in letter case, in a leading blank and in a twenty-first          *)
(* character.  Time advances by a minute or by a minute and a millisecond, *)
(* so a one-minute ban is met on its expiry time and just after it.        *)
(***************************************************************************)
BanJoiners == Sockets \ {AdminSocket}
BanNames == {<<" ", "b">>, LongName("x")}
BanTargets == {<<"B">>, substring20(LongName("y"))}
BanDurations == {0, 1}
BanTicks == {MS_PER_MINUTE, MS_PER_MINUTE + 1}

NextBan ==
    \/ \E sid \in BanJoiners, n \in BanNames : UserJoin(sid, n, "")
    \/ \E a \in {"ban", "unban", "get_banned_users"}, target \in BanTargets,
          duration \in BanDurations :
          AdminAction(AdminSocket, ADMIN_PASSWORD, a, target, Null, duration)
    \/ \E d \in BanTicks : Tick(d)

SpecBan == Init /\ [][NextBan]_vars

(***************************************************************************)
(* SpecSlow: slow mode and global mute.  Socket 1 is the administrator's   *)
(* and never joins; the two others join as "a" and "b" and send messages,  *)
(* with and without content, and "a" may be put on the list of             *)
(* administrators.  Time advances by 0.4 s and by 1 s up to SlowHorizon.   *)
(***************************************************************************)
SlowHorizon == 1400
SlowSenders == Sockets \ {AdminSocket}
SlowName(sid) == IF sid = 2 THEN <<"a">> ELSE <<"b">>
SlowModes == {0, 1, 2}
SlowContents == {<<"h">>, << >>}
SlowTicks == {400, MS_PER_SECOND}

NextSlow ==
    \/ \E sid \in SlowSenders :
          ~HasUser(connectedUsers, sid) /\ UserJoin(sid, SlowName(sid), "")
    \/ \E sid \in SlowSenders, content \in SlowContents :
          SendMessage(sid, "", content, FALSE)
    \/ AdminLogin(AdminSocket, ADMIN_PASSWORD, SlowName(2))
    \/ \E a \in {"mute_all", "unmute_all"} :
          AdminAction(AdminSocket, ADMIN_PASSWORD, a, Null, 0, 0)
    \/ \E S \in SlowModes :
          AdminAction(AdminSocket, ADMIN_PASSWORD, "slow_mode", Null, S, 0)
    \/ \E d \in SlowTicks : now + d <= SlowHorizon /\ Tick(d)

SpecSlow == Init /\ [][NextSlow]_vars

(***************************************************************************)
(* SpecPrivate: private mode.  Socket 1 is the administrator's and sets    *)
(* the mode and the access code; the two others join with no code, with    *)
(* the code the administrator may set and with another one.                *)
(***************************************************************************)
PrivateJoiners == Sockets \ {AdminSocket}
PrivateCodes == {"", "k", "x"}
PolicyCodes == {"", "k"}

NextPrivate ==
    \/ \E sid \in PrivateJoiners, code \in PrivateCodes :
          UserJoin(sid, SlowName(sid), code)
    \/ \E sid \in PrivateJoiners : Disconnect(sid)
    \/ \E value \in BOOLEAN :
          AdminAction(AdminSocket, ADMIN_PASSWORD, "set_private", Null, value, 0)
    \/ \E value \in PolicyCodes :
          AdminAction(AdminSocket, ADMIN_PASSWORD, "set_access_code", Null,
                      value, 0)

SpecPrivate == Init /\ [][NextPrivate]_vars

(***************************************************************************)
(* SpecAdmin: the administrator's console against a running chat.  Socket  *)
(* 1 sends admin_action events with the right password and with a wrong    *)
(* one, under every action name and one that does not exist; socket 2      *)
(* joins as "a", sends messages and reacts to the first of them.           *)
(***************************************************************************)
AdminActions ==
    {"rename", "kick", "ban", "get_banned_users", "unban", "clear_history",
     "broadcast", "set_private", "set_access_code", "slow_mode", "mute_all",
     "unmute_all", "noop"}

\* data.value as the clients send it with each action
AdminValueOf(a) ==
    CASE a = "rename" -> {<<"c">>}
      [] a = "broadcast" -> {<<"h">>}
      [] a \in {"set_private", "mute_all"} -> BOOLEAN
      [] a = "set_access_code" -> {"k"}
      [] a = "slow_mode" -> {1}
      [] OTHER -> {Null}

NextAdmin ==
    \/ ~HasUser(connectedUsers, 2) /\ UserJoin(2, SlowName(2), "k")
    \/ SendMessage(2, "", <<"h">>, FALSE)
    \/ Reaction(2, 2, "+", "add")
    \/ \E pw \in Passwords, a \in AdminActions :
          \E value \in AdminValueOf(a) :
              AdminAction(AdminSocket, pw, a, SlowName(2), value, 0)

SpecAdmin == Init /\ [][NextAdmin]_vars

(***************************************************************************)
(* SpecAuthor: messages and the names of their authors.  Two clients join  *)
(* as "a" or "b", rename themselves, leave, send messages, and edit and    *)
(* delete the messages of the first ids.                                   *)
(***************************************************************************)
AuthorSockets == {2, 3}
AuthorNames == {<<"a">>, <<"b">>}
AuthorRenames == {<<"a">>, <<"c">>}
EditContents == {<<"e">>, << >>}

NextAuthor ==
    \/ \E sid \in AuthorSockets, n \in AuthorNames :
          ~HasUser(connectedUsers, sid) /\ UserJoin(sid, n, "")
    \/ \E sid \in AuthorSockets : Disconnect(sid)
    \/ \E sid \in AuthorSockets, n \in AuthorRenames : ChangeUsername(sid, n)
    \/ \E sid \in AuthorSockets : SendMessage(sid, "", <<"h">>, FALSE)
    \/ \E sid \in AuthorSockets, m \in MessageIds, c \in EditContents :
          EditMessage(sid, m, c)
    \/ \E sid \in AuthorSockets, m \in MessageIds, pw \in Passwords :
          DeleteMessage(sid, m, pw)

SpecAuthor == Init /\ [][NextAuthor]_vars

(***************************************************************************)
(* SpecPoll: two clients join, rename and leave, open a poll of two        *)
(* options and vote, with the index of an option, with the key "length"    *)
(* and for a poll that does not exist.                                     *)
(***************************************************************************)
MaxPolls == 1
PollOptions == <<<<"x">>, <<"y">>>>
PollIds == {PollId(n) : n \in 1 .. MaxPolls + 1}
OptionKeys == {"0", "1", "length"}

NextPoll ==
    \/ \E sid \in AuthorSockets, n \in AuthorNames :
          ~HasUser(connectedUsers, sid) /\ UserJoin(sid, n, "")
    \/ \E sid \in AuthorSockets : Disconnect(sid)
    \/ \E sid \in AuthorSockets : ChangeUsername(sid, <<"c">>)
    \/ \E sid \in AuthorSockets :
          pollIdCounter <= MaxPolls /\ CreatePoll(sid, <<"q">>, PollOptions, "")
    \/ \E sid \in AuthorSockets, p \in PollIds, k \in OptionKeys :
          VotePoll(sid, p, k)

SpecPoll == Init /\ [][NextPoll]_vars

(***************************************************************************)
(* SpecCrash: payloads that miss a field or name no option.  Two clients   *)
(* join and send messages, open a poll and vote for an option and for the  *)
(* index past the last one; the administrator kicks by name and without a  *)
(* target.                                                                 *)
(***************************************************************************)
CrashKeys == {"0", "2"}
CrashTargets == {<<"a">>, Undefined}

NextCrash ==
    \/ \E sid \in AuthorSockets, n \in AuthorNames :
          ~HasUser(connectedUsers, sid) /\ UserJoin(sid, n, "")
    \/ \E sid \in AuthorSockets : SendMessage(sid, "", <<"h">>, FALSE)
    \/ \E sid \in AuthorSockets :
          pollIdCounter <= MaxPolls /\ CreatePoll(sid, <<"q">>, PollOptions, "")
    \/ \E sid \in AuthorSockets, k \in CrashKeys : VotePoll(sid, PollId(1), k)
    \/ \E target \in CrashTargets :
          AdminAction(AdminSocket, ADMIN_PASSWORD, "kick", target, Null, 0)
    \/ ProcessExit

SpecCrash == Init /\ [][NextCrash]_vars

(***************************************************************************)
(* SpecBanName: the names of the connected sessions and the bans.  Two     *)
(* clients join as "a" and "b" and rename themselves; the administrator    *)
(* bans "b" and "c" for ever and renames "a".                              *)
(***************************************************************************)
BannedNames == {<<"b">>, <<"c">>}

NextBanName ==
    \/ \E sid \in AuthorSockets, n \in AuthorNames : UserJoin(sid, n, "")
    \/ \E sid \in AuthorSockets, n \in BannedNames : ChangeUsername(sid, n)
    \/ \E target \in BannedNames :
          AdminAction(AdminSocket, ADMIN_PASSWORD, "ban", target, Null, 0)
    \/ \E value \in BannedNames :
          AdminAction(AdminSocket, ADMIN_PASSWORD, "rename", <<"a">>, value, 0)

SpecBanName == Init /\ [][NextBanName]_vars

(***************************************************************************)
(* SpecAdminList: the list of authenticated administrators.  Two clients   *)
(* join as "a" and "b", authenticate as administrators under the name they *)
(* have, rename themselves to "c" and leave.                               *)
(***************************************************************************)
NextAdminList ==
    \/ \E sid \in AuthorSockets, n \in AuthorNames :
          ~HasUser(connectedUsers, sid) /\ UserJoin(sid, n, "")
    \/ \E sid \in AuthorSockets :
          /\ HasUser(connectedUsers, sid)
          /\ AdminLogin(sid, ADMIN_PASSWORD, GetUser(connectedUsers, sid).username)
    \/ \E sid \in AuthorSockets : ChangeUsername(sid, <<"c">>)
    \/ \E sid \in AuthorSockets : Disconnect(sid)

SpecAdminList == Init /\ [][NextAdminList]_vars

(***************************************************************************)
(* SpecTyping: typing indicators.  Two clients join as "a" and "b", start  *)
(* and stop typing in two channels, send messages, rename themselves and   *)
(* leave; they join before time advances, by 3 s up to TypingHorizon, so   *)
(* an entry is met at the ages of 3 s and 6 s, and the timer of 2 s may    *)
(* fire.                                                                   *)
(***************************************************************************)
TypingHorizon == 6000
TypingTick == 3000
TypingChannels == {AVAILABLE_CHANNELS[1], AVAILABLE_CHANNELS[3]}

NextTyping ==
    \/ \E sid \in AuthorSockets :
          /\ now = 0 /\ ~HasUser(connectedUsers, sid)
          /\ UserJoin(sid, SlowName(sid), "")
    \/ \E sid \in AuthorSockets, ch \in TypingChannels : TypingStart(sid, ch)
    \/ \E sid \in AuthorSockets : TypingStop(sid)
    \/ \E sid \in AuthorSockets : SendMessage(sid, "", <<"h">>, FALSE)
    \/ \E sid \in AuthorSockets : ChangeUsername(sid, <<"c">>)
    \/ \E sid \in AuthorSockets : Disconnect(sid)
    \/ ExpireTyping
    \/ now + TypingTick <= TypingHorizon /\ Tick(TypingTick)

SpecTyping == Init /\ [][NextTyping]_vars

(***************************************************************************)
(* SpecDM: direct messages.  The server starts with no thread or with the  *)
(* thread of "a" and "b" one message short of full; "a" and "b" join and   *)
(* write to each other and to "z", who never joins, MaxDms messages in     *)
(* all, and read their threads.                                            *)
(***************************************************************************)
MaxDms == 3
LoadedDmSizes == {0, DM_MAX - 1}
DmTargets == {<<"a">>, <<"b">>, <<"z">>}

LoadedDm(i) ==
    [from |-> <<"a">>, to |-> <<"b">>, content |-> <<"o">>, attachment |-> FALSE,
     timestamp |-> START_TIME - 1]

\* loadDMs (283-295)
InitDM ==
    /\ InitSessions
    /\ loadedMessageId = 1
    /\ messageId = 1
    /\ chatHistory = << >>
    /\ channelHistories = [ch \in Channels |-> << >>]
    /\ messageReactions = EmptyMap
    /\ probe = NoProbe
    /\ \E n \in LoadedDmSizes :
          dmHistory = IF n = 0 THEN EmptyMap
                      ELSE MapPut(EmptyMap, dmKey(<<"a">>, <<"b">>),
                                  [i \in 1 .. n |-> LoadedDm(i)])

\* the messages sent since the start
SentDms ==
    {<<k, i>> \in UNION {{k} \X (1 .. Len(dmHistory[k])) : k \in DOMAIN dmHistory} :
        dmHistory[k][i].content = <<"h">>}

NextDM ==
    \/ \E sid \in AuthorSockets :
          ~HasUser(connectedUsers, sid) /\ UserJoin(sid, SlowName(sid), "")
    \/ \E sid \in AuthorSockets, to \in DmTargets :
          Cardinality(SentDms) < MaxDms /\ SendDm(sid, to, <<"h">>, FALSE)
    \/ \E sid \in AuthorSockets, to \in DmTargets : GetDmHistory(sid, to)

SpecDM == InitDM /\ [][NextDM]_vars

(***************************************************************************)
(* SpecReset: message ids across the resets of the history.  One client    *)
(* joins and sends messages while the channel log is short; the            *)
(* administrator clears the history by admin_action and by the HTTP route. *)
(***************************************************************************)
ResetLogBound == 2
ResetKeys == {ADMIN_KEY, "guess"}

NextReset ==
    \/ ~HasUser(connectedUsers, 2) /\ UserJoin(2, SlowName(2), "")
    \/ Disconnect(2)
    \/ /\ Len(channelHistories[AVAILABLE_CHANNELS[1]]) < ResetLogBound
       /\ SendMessage(2, "", <<"h">>, FALSE)
    \/ /\ Len(channelHistories[AVAILABLE_CHANNELS[1]]) < ResetLogBound
       /\ GeminiResponse(2, "", <<"h">>)
    \/ AdminAction(AdminSocket, ADMIN_PASSWORD, "clear_history", Null, Null, 0)
    \/ \E key \in ResetKeys : AdminReset(key)

SpecReset == Init /\ [][NextReset]_vars

(***************************************************************************)
(* Names of live sessions.                                                 *)
(***************************************************************************)
LiveNames == {connectedUsers[i].username : i \in 1 .. Len(connectedUsers)}

\* the sessions other than the i-th whose name equals, letter case aside,
\* the name n
Holders(cu, n) == {i \in 1 .. Len(cu) : toLowerCase(cu[i].username) = toLowerCase(n)}

\* C1: after any sequence of user_join and disconnect events no two
\* connected sessions hold names that are equal case-insensitively, and a
\* user_join under a name a live session holds leaves the sessions as they are.
C1_Unique ==
    \A i, j \in 1 .. Len(connectedUsers) :
        i # j => toLowerCase(connectedUsers[i].username)
                    # toLowerCase(connectedUsers[j].username)

C1_Step ==
    [][\A n \in JoinNames :
          Holders(connectedUsers, substring20(trim(n))) # {} =>
              \A sid \in Sockets :
                  UserJoin(sid, n, "") =>
                      (connectedUsers' = connectedUsers /\ branch' = "user_join:taken")]_vars

C1_JoinUnique == []C1_Unique /\ C1_Step

C1_Witness ==
    /\ branch = "user_join:taken"
    /\ Len(connectedUsers) = 2
    /\ closed # {}

\* C2: with self-rename and admin-forced rename added, still no two
\* connected sessions hold case-insensitively equal names.
C2_UniqueAfterRenames ==
    Cardinality({toLowerCase(n) : n \in LiveNames}) = Len(connectedUsers)

\* an admin rename has given one session the name of another
C2_Witness ==
    /\ branch = "admin_action:rename:ok"
    /\ \E i, j \in 1 .. Len(connectedUsers) :
          /\ i # j
          /\ connectedUsers[i].username = connectedUsers[j].username

(***************************************************************************)
(* The game claims.                                                        *)
(***************************************************************************)
HasGameUpdate(evs) == \E k \in 1 .. Len(evs) : evs[k].ev = "game_update"

PlayerSockets(game) == {game.players[k].socket : k \in 1 .. Len(game.players)}

\* the indices (0 or 1) at which the session sid is bound to the game
IndicesOf(game, sid) ==
    {k - 1 : k \in {j \in 1 .. Len(game.players) : game.players[j].socket = sid}}

\* C3: a game_move by a session that is not one of the game's two players,
\* or by the player whose index is not the current turn, leaves the games
\* as they are and sends no game_update.
C3_OnlyPlayerOnTurnMoves ==
    [][\A gid \in DOMAIN activeGames : \A sid \in Sockets :
          (activeGames[gid].currentTurn \notin IndicesOf(activeGames[gid], sid)) =>
              \A move \in GameMoves :
                  GameMove(sid, gid, move) =>
                      (activeGames' = activeGames /\ ~HasGameUpdate(emitted'))]_vars

\* the inviter has renamed, another session has taken the old name and its
\* move in the inviter's game has been accepted
C3_Witness ==
    /\ branch = "game_move:ok"
    /\ 0 \in DOMAIN activeGames
    /\ activeGames[0].players[1] = [username |-> <<"a">>, socket |-> 1]
    /\ activeGames[0].players[2] = [username |-> <<"b">>, socket |-> 2]
    /\ activeGames[0].currentTurn = 1
    /\ \E i \in 1 .. Len(connectedUsers) :
          connectedUsers[i] = [id |-> 1, username |-> <<"c">>]
    /\ \E i \in 1 .. Len(connectedUsers) :
          connectedUsers[i] = [id |-> 3, username |-> <<"a">>]

\* C9: once the disconnect of a session has been handled no active game has
\* that session as a player.
C9_DisconnectEndsGames ==
    [][\A sid \in Sockets :
          (sid \notin closed /\ sid \in closed') =>
              \A gid \in DOMAIN activeGames' :
                  sid \notin PlayerSockets(activeGames'[gid])]_vars

\* a session has left and a game it plays in is still active
C9_Witness ==
    /\ branch = "disconnect"
    /\ \E gid \in DOMAIN activeGames :
          PlayerSockets(activeGames[gid]) \cap closed # {}

\* C10: game_accept on a pending invite creates one game, with the players
\* [inviter, invitee] and the current turn 0, and removes the invite; a
\* game_accept or game_decline with an invite id that is not pending does
\* nothing.
C10_AcceptOnce ==
    [][\A iid \in InviteIds : \A sid \in Sockets :
          /\ (iid \in DOMAIN gameInvites /\ GameAccept(sid, iid)) =>
                /\ DOMAIN activeGames' = DOMAIN activeGames \cup {now}
                /\ \A gid \in DOMAIN activeGames \ {now} :
                      activeGames'[gid] = activeGames[gid]
                /\ activeGames'[now].players =
                      << [username |-> gameInvites[iid].from,
                          socket |-> gameInvites[iid].fromSocket],
                         [username |-> gameInvites[iid].to,
                          socket |-> gameInvites[iid].toSocket] >>
                /\ activeGames'[now].currentTurn = 0
                /\ activeGames'[now].type = gameInvites[iid].gameType
                /\ DOMAIN gameInvites' = DOMAIN gameInvites \ {iid}
                /\ \A other \in DOMAIN gameInvites' :
                      gameInvites'[other] = gameInvites[other]
          /\ (iid \notin DOMAIN gameInvites
                /\ (GameAccept(sid, iid) \/ GameDecline(sid, iid))) =>
                (UNCHANGED server /\ emitted' = << >>)]_vars

C10_Witness ==
    /\ branch = "game_accept:no_invite"
    /\ activeGames # EmptyMap
    /\ gameInvites = EmptyMap

(***************************************************************************)
(* What a move changed: the cells whose content differs.                   *)
(***************************************************************************)
Changed(before, after) ==
    {x \in DOMAIN after : x \notin DOMAIN before \/ before[x] # after[x]}

Mark(game, i) == IF game.type = "tictactoe" THEN symbols[i + 1] ELSE colors[i + 1]

\* the game the last accepted move was made in, before and after the move
MovedId == emitted'[1].gameId
ValidMove == result' # << >> /\ result'[1].valid

\* C4: a new game starts with player 0 to move, and every accepted
\* non-terminal move is made by the player whose turn it is, places that
\* player's mark and passes the turn to the other player.
C4_TurnsAlternate ==
    [][/\ branch' = "game_accept:ok" => activeGames'[now].currentTurn = 0
       /\ (ValidMove /\ result'[1].nextTurn # -1) =>
             LET before == activeGames[MovedId]
                 after == activeGames'[MovedId]
                 i == before.currentTurn
             IN  /\ i \in {0, 1}
                 /\ emitted'[1].lastMoveBy = before.players[i + 1].username
                 /\ \E x \in DOMAIN after.board :
                       /\ Changed(before.board, after.board) = {x}
                       /\ after.board[x] = Mark(before, i)
                 /\ after.currentTurn = (i + 1) % 2
                 /\ result'[1].nextTurn = (i + 1) % 2]_vars

C4_Witness ==
    /\ branch = "game_move:ok"
    /\ \E gid \in DOMAIN activeGames :
          /\ activeGames[gid].currentTurn = 0
          /\ Cardinality({x \in DOMAIN activeGames[gid].board :
                             activeGames[gid].board[x] # ""}) = 4

\* C5: a move to an occupied tic-tac-toe cell or a full four-in-a-row
\* column changes no game and sends no game_update.
ColumnFull(board, col) == \A r \in 0 .. C4_ROWS - 1 : board[<<r, col>>] # ""

Occupied(game, move) ==
    IF game.type = "tictactoe" THEN game.board[move] # ""
    ELSE ColumnFull(game.board, move)

C5_OccupiedRejected ==
    [][(/\ 0 \in DOMAIN activeGames
        /\ (activeGames' # activeGames \/ HasGameUpdate(emitted'))) =>
          \A move \in PlayMoves(0) :
              Occupied(activeGames[0], move) =>
                  \A sid \in PlaySockets : ~GameMove(sid, 0, move)]_vars

C5_Witness ==
    /\ branch = "game_move:invalid"
    /\ 0 \in DOMAIN activeGames
    /\ activeGames[0].type = "connect4"
    /\ \E col \in C4Moves : ColumnFull(activeGames[0].board, col)

\* C6: a valid move that wins or draws returns nextTurn = -1, sends the
\* final board to both players and removes the game; a game_move or
\* game_quit for a game id that is not active changes nothing.
FinalSentTo(evs, sock, gid, board) ==
    \E k \in 1 .. Len(evs) :
        /\ evs[k].ev = "game_update"
        /\ evs[k].to = sock
        /\ evs[k].gameId = gid
        /\ evs[k].state = board
        /\ ~evs[k].yourTurn

C6_TerminalRemoves ==
    [][/\ (ValidMove /\ (result'[1].winner # Null \/ result'[1].draw)) =>
             LET before == activeGames[MovedId]
             IN  /\ result'[1].nextTurn = -1
                 /\ MovedId \notin DOMAIN activeGames'
                 /\ Cardinality(Changed(before.board, emitted'[1].state)) = 1
                 /\ \A sock \in PlayerSockets(before) :
                       FinalSentTo(emitted', sock, MovedId, emitted'[1].state)
       /\ 0 \notin DOMAIN activeGames =>
             \A sid \in PlaySockets :
                 (GameQuit(sid, 0) \/ \E move \in PlayMoves(0) : GameMove(sid, 0, move))
                     => (UNCHANGED server /\ emitted' = << >>)]_vars

C6_Witness ==
    /\ branch = "game_move:over"
    /\ result[1].draw
    /\ activeGames = EmptyMap
    /\ Len(emitted) = 2

\* C7: on a tic-tac-toe board a valid move reports the mover as winner
\* exactly when one of the 3 rows, 3 columns and 2 diagonals holds three
\* equal marks after it, and a draw exactly when the board is full and no
\* such line exists.
Three(b, x, y, z) == b[x] # "" /\ b[x] = b[y] /\ b[y] = b[z]

HasLine(b) ==
    \/ \E r \in 0 .. 2 : Three(b, 3 * r, 3 * r + 1, 3 * r + 2)
    \/ \E c \in 0 .. 2 : Three(b, c, c + 3, c + 6)
    \/ Three(b, 0, 4, 8)
    \/ Three(b, 2, 4, 6)

Full(b) == \A x \in 0 .. TTT_CELLS - 1 : b[x] # ""

C7_TTTOutcome ==
    [][(ValidMove /\ activeGames[MovedId].type = "tictactoe") =>
          LET b == emitted'[1].state
              r == result'[1]
          IN  /\ HasLine(b) => r.winner = emitted'[1].lastMoveBy
              /\ ~HasLine(b) => r.winner = Null
              /\ r.draw <=> (Full(b) /\ ~HasLine(b))
              /\ emitted'[1].winner = r.winner /\ emitted'[1].draw = r.draw
              /\ emitted'[1].lastMoveBy # Null]_vars

C7_Witness ==
    /\ result # << >>
    /\ result[1].valid
    /\ result[1].draw
    /\ Full(emitted[1].state)

\* C8: a valid drop on a four-in-a-row board reports the mover as winner
\* exactly when the piece just placed lies in a run of at least 4 cells of
\* its colour, contiguous along a row, a column or a diagonal.
Axes == {<<0, 1>>, <<1, 0>>, <<1, 1>>, <<1, -1>>}

RunThrough(b, r, c, color, d) ==
    \E k \in 0 .. 3 :
        \A j \in 0 .. 3 :
            /\ OnBoard(r + d[1] * (j - k), c + d[2] * (j - k))
            /\ b[<<r + d[1] * (j - k), c + d[2] * (j - k)>>] = color

LandingRow(b, c) ==
    CHOOSE r \in 0 .. C4_ROWS - 1 :
        b[<<r, c>>] = "" /\ \A x \in Below(r) : b[<<x, c>>] # ""

C8_C4Outcome ==
    probe.out # << >> =>
        LET b0 == probe.game.board
            o == probe.out[1]
            c == probe.move
            r == LandingRow(b0, c)
            color == colors[probe.playerIndex + 1]
            mover == probe.game.players[probe.playerIndex + 1].username
            won == \E d \in Axes : RunThrough(o.game.board, r, c, color, d)
        IN  /\ o.res.valid
            /\ o.game.board = [b0 EXCEPT ![<<r, c>>] = color]
            /\ won => o.res.winner = mover
            /\ ~won => o.res.winner = Null

C8_Witness ==
    /\ probe.out # << >>
    /\ probe.out[1].res.winner # Null
    /\ LandingRow(probe.game.board, probe.move) = 2
    /\ RunThrough(probe.out[1].game.board, 2, probe.move,
                  colors[probe.playerIndex + 1], <<1, -1>>)

(***************************************************************************)
(* The logs.                                                               *)
(***************************************************************************)
\* C11: every per-channel log holds at most MAX_CHANNEL_HISTORY messages,
\* and an append to a channel leaves in its log the most recent messages
\* in the order of their arrival.
C11_Bounded ==
    \A ch \in DOMAIN channelHistories :
        Len(channelHistories[ch]) <= MAX_CHANNEL_HISTORY

C11_Retained ==
    [][\A ch \in DOMAIN channelHistories' :
          LET old == IF ch \in DOMAIN channelHistories
                     THEN channelHistories[ch] ELSE << >>
              new == channelHistories'[ch]
          IN  new # old =>
                  \E m \in {new[Len(new)]} :
                      new = sliceLast(Append(old, m), MAX_CHANNEL_HISTORY)]_vars

C11_ChannelLogs == []C11_Bounded /\ C11_Retained

\* a channel log has grown past its bound
C11_Witness ==
    /\ branch = "gemini_response:ok"
    /\ Len(channelHistories[AVAILABLE_CHANNELS[1]]) = MAX_CHANNEL_HISTORY + 1

\* the ids of the messages the last handler sent to everyone and logged in
\* the unified log: those of send_message and the system messages of
\* join, leave, rename, kick, ban and broadcast
LoggedIds ==
    {emitted'[k].id : k \in {j \in 1 .. Len(emitted') :
                                emitted'[j].ev = "system_message"}}
    \cup {emitted'[k].message.id : k \in {j \in 1 .. Len(emitted') :
                /\ emitted'[j].ev = "new_message"
                /\ branch' = "send_message:ok"}}

\* C12: the unified log holds at most MAX_HISTORY entries in increasing
\* order of id, and a step that appends keeps the new entries after the old
\* ones and drops old entries from the front only, and only at the bound.
C12_Ordered ==
    /\ Len(chatHistory) <= MAX_HISTORY
    /\ \A i \in 1 .. Len(chatHistory) - 1 :
          chatHistory[i].id < chatHistory[i + 1].id

C12_OldestFirst ==
    [][LET old == SelectSeq(chatHistory', LAMBDA m : m.id < messageId)
           new == SelectSeq(chatHistory', LAMBDA m : m.id >= messageId)
       IN  /\ chatHistory' = old \o new
           /\ old = sliceLast(chatHistory, Len(old))
           /\ Len(old) < Len(chatHistory) => Len(chatHistory') = MAX_HISTORY
           /\ {new[k].id : k \in 1 .. Len(new)} = LoggedIds]_vars

C12_UnifiedLog == []C12_Ordered /\ C12_OldestFirst

\* an append at the bound has dropped the oldest entry
C12_Witness ==
    /\ Len(chatHistory) = MAX_HISTORY
    /\ chatHistory[1].id = 3
    /\ chatHistory[MAX_HISTORY].username = <<"a">>
    /\ branch = "send_message:ok"

(***************************************************************************)
(* Deleted messages.                                                       *)
(***************************************************************************)
HasId(history, m) == \E i \in 1 .. Len(history) : history[i].id = m

\* C13: after a successful delete_message of the id m neither the unified
\* log (sent on join) nor any channel log (sent on switch_channel) holds a
\* message with the id m, and the reaction index has no entry for m.
C13_DeletedGone ==
    [][branch' = "delete_message:ok" =>
          LET m == emitted'[1].messageId
          IN  /\ ~HasId(chatHistory', m)
              /\ \A ch \in DOMAIN channelHistories' :
                    ~HasId(channelHistories'[ch], m)
              /\ ToString(m) \notin DOMAIN messageReactions']_vars

\* switch_channel has served a message that was deleted
C13_Witness ==
    /\ branch = "switch_channel:ok"
    /\ \E i \in 1 .. Len(emitted[1].messages) :
          ~HasId(chatHistory, emitted[1].messages[i].id)

\* the id m was issued and the unified log holds no message with it: where
\* every id issued is logged and nothing is evicted, m was deleted
Deleted(m) == m >= 1 /\ m < messageId /\ ~HasId(chatHistory, m)

\* C14: a reaction with the action add to the id of a deleted message
\* leaves the reaction index without an entry for that id.
C14_NoReactionToDeleted ==
    [][(branch' = "reaction:ok" /\ Deleted(emitted'[1].messageId)) =>
          ToString(emitted'[1].messageId) \notin DOMAIN messageReactions']_vars

\* a reaction add has made an entry for a deleted message
C14_Witness ==
    /\ branch = "reaction:ok"
    /\ Deleted(emitted[1].messageId)
    /\ ToString(emitted[1].messageId) \in DOMAIN messageReactions
    /\ messageReactions[ToString(emitted[1].messageId)]["+"] # << >>

(***************************************************************************)
(* Bans.                                                                   *)
(***************************************************************************)
\* the ban entries whose banned name equals, letter case aside, the name n
BansOf(n) ==
    {k \in DOMAIN bannedUsers :
        toLowerCase(bannedUsers[k].username) = toLowerCase(n)}

\* the expiry time of the entry has passed
Lapsed(ban) == ~ban.permanent /\ DateNow(State) > ban.expiresAt

C16_LapsedAbsent ==
    [][/\ \A n \in BanNames :
            LET c == substring20(trim(n))
            IN  (BansOf(c) # {} /\ \A k \in BansOf(c) : Lapsed(bannedUsers[k])) =>
                    \A sid \in BanJoiners :
                        UserJoin(sid, n, "") =>
                            /\ branch' # "user_join:banned"
                            /\ ~NameTaken(connectedUsers, c) =>
                                  /\ branch' = "user_join:ok"
                                  /\ HasUser(connectedUsers', sid)
       /\ branch' = "admin_action:get_banned_users" =>
            \A k \in emitted'[1].bannedUsers : ~Lapsed(bannedUsers[k])]_vars

\* a join under the name "b" succeeded after a banned join had closed a
\* socket, at a time when another ban has lapsed and "b" has no entry left
C16_Witness ==
    /\ branch = "user_join:ok"
    /\ closed # {}
    /\ \E i \in 1 .. Len(connectedUsers) :
          toLowerCase(connectedUsers[i].username) = <<"b">>
    /\ <<"b">> \notin DOMAIN bannedUsers
    /\ \E k \in DOMAIN bannedUsers : Lapsed(bannedUsers[k])

\* C17: an unban(target) that follows a ban(target) with the same target
\* string, whatever its letter case, leaves no ban entry for that name.
C17_UnbanRemoves ==
    [][\A target \in BanTargets :
          (\E k \in DOMAIN bannedUsers : bannedUsers[k].username = target) =>
              (AdminAction(AdminSocket, ADMIN_PASSWORD, "unban", target, Null, 0) =>
                  \A k \in DOMAIN bannedUsers' :
                      toLowerCase(bannedUsers'[k].username)
                          # toLowerCase(target))]_vars

\* an unban has been answered with success and the entry of the one
\* ban('B') there has been is still there
C17_Witness ==
    /\ branch = "admin_action:unban:ok"
    /\ emitted[1].success
    /\ messageId = loadedMessageId + 1
    /\ DOMAIN bannedUsers = {<<"b">>}
    /\ bannedUsers[<<"b">>].username = <<"B">>

(***************************************************************************)
(* Slow mode and global mute.                                              *)
(***************************************************************************)
OnAdminList(name) == \E i \in 1 .. Len(adminUsersList) : adminUsersList[i] = name

IsAdminListed(sid) == OnAdminList(GetUser(connectedUsers, sid).username)

\* the least whole number of seconds that is not less than ms milliseconds
WholeSecondsUp(ms) ==
    CHOOSE r \in 0 .. serverConfig.slowMode :
        r * MS_PER_SECOND >= ms /\ (r - 1) * MS_PER_SECOND < ms

\* send_message of the session sid is answered with slow_mode_active alone,
\* the remaining time being the interval less elapsedMs, rounded up
SlowRejected(sid, elapsedMs) ==
    \A content \in SlowContents :
        SendMessage(sid, "", content, FALSE) =>
            /\ branch' = "send_message:slow_mode"
            /\ chatHistory' = chatHistory
            /\ channelHistories' = channelHistories
            /\ emitted' = <<[to |-> sid, ev |-> "slow_mode_active",
                             remainingTime |->
                                 WholeSecondsUp(serverConfig.slowMode * MS_PER_SECOND
                                                    - elapsedMs)]>>

\* the time at which the last message of the session sid was accepted, 0
\* when the unified log holds none
LastAccepted(sid) ==
    LET i == LastMatch(chatHistory,
                       LAMBDA m : m.type = "user" /\ m.userId = sid)
    IN  IF i = 0 THEN 0 ELSE chatHistory[i].timestamp

\* C18 as stated: with slow mode at S > 0 and no global mute, a send_message of a session that
\* is not an administrator's and whose previous message was accepted less
\* than S seconds ago is rejected, goes to no log and to no one, and is
\* answered with slow_mode_active and S less the elapsed time, rounded up
\* to a whole second.
C18_SinceAccepted ==
    [][\A sid \in SlowSenders :
          (/\ serverConfig.slowMode > 0
           /\ ~serverConfig.globalMute
           /\ HasUser(connectedUsers, sid)
           /\ ~IsAdminListed(sid)
           /\ LastAccepted(sid) # 0
           /\ DateNow(State) - LastAccepted(sid)
                  < serverConfig.slowMode * MS_PER_SECOND) =>
              SlowRejected(sid, DateNow(State) - LastAccepted(sid))]_vars

\* C18: the same, the elapsed time being counted from the last send_message
\* of the session that passed the slow-mode test, which is made only while
\* slow mode is on and the sender is not an administrator.
C18_SincePassed ==
    [][\A sid \in SlowSenders :
          (/\ serverConfig.slowMode > 0
           /\ ~serverConfig.globalMute
           /\ HasUser(connectedUsers, sid)
           /\ ~IsAdminListed(sid)
           /\ sid \in DOMAIN lastMessageTime
           /\ DateNow(State) - lastMessageTime[sid]
                  < serverConfig.slowMode * MS_PER_SECOND) =>
              SlowRejected(sid, DateNow(State) - lastMessageTime[sid])]_vars

\* a message sent 0.4 s after one that passed was rejected with 2 s to wait
C18_Witness ==
    /\ branch = "send_message:slow_mode"
    /\ emitted[1].remainingTime = 2
    /\ \E sid \in DOMAIN lastMessageTime :
          DateNow(State) - lastMessageTime[sid] = 400

\* C19: while global mute is on, a send_message of a session whose name is
\* not on the list of administrators is answered with muted alone and
\* leaves every log as it was; one of a session whose name is on the list is
\* not answered with muted, and is logged and broadcast when it has content.
C19_GlobalMute ==
    [][\A sid \in SlowSenders :
          (serverConfig.globalMute /\ HasUser(connectedUsers, sid)) =>
              \A content \in SlowContents :
                  SendMessage(sid, "", content, FALSE) =>
                      IF ~IsAdminListed(sid)
                      THEN /\ branch' = "send_message:muted"
                           /\ emitted' = <<[to |-> sid, ev |-> "muted"]>>
                           /\ chatHistory' = chatHistory
                           /\ channelHistories' = channelHistories
                      ELSE /\ branch' # "send_message:muted"
                           /\ content # << >> =>
                                 /\ branch' = "send_message:ok"
                                 /\ Len(chatHistory') = Len(chatHistory) + 1
                                 /\ emitted'[1].to = Broadcast]_vars

\* under global mute the session "b" was answered with muted after the
\* administrator "a" had a message logged
C19_Witness ==
    /\ serverConfig.globalMute
    /\ branch = "send_message:muted"
    /\ ~IsAdminListed(emitted[1].to)
    /\ \E i \in 1 .. Len(chatHistory) :
          /\ chatHistory[i].type = "user"
          /\ OnAdminList(chatHistory[i].username)
          /\ i = Len(chatHistory)

(***************************************************************************)
(* Private mode.                                                           *)
(***************************************************************************)
\* C20: while the server is in private mode, every user_join whose access
\* code differs from the access code of the policy is rejected and leaves
\* the sessions as they were.
C20_PrivateRejects ==
    [][\A code \in PrivateCodes :
          (serverConfig.isPrivate /\ code # serverConfig.accessCode) =>
              \A sid \in PrivateJoiners :
                  UserJoin(sid, SlowName(sid), code) =>
                      /\ branch' = "user_join:access_denied"
                      /\ connectedUsers' = connectedUsers]_vars

\* a join has made a session while the server is private and has no code
C20_Witness ==
    /\ serverConfig.isPrivate
    /\ serverConfig.accessCode = ""
    /\ branch = "user_join:ok"
    /\ HasUser(connectedUsers, emitted[1].to)

(***************************************************************************)
(* The administrator's console.                                            *)
(***************************************************************************)
\* C21: an admin_action with a password that is not the configured one
\* leaves the whole server state as it was and sends the caller the same
\* refusal, and nothing else, whatever action name it carries: a step
\* either does that or is no such admin_action.
C21_WrongSecret ==
    [][\/ /\ UNCHANGED server
          /\ emitted' = <<[to |-> AdminSocket, ev |-> "admin_response",
                           success |-> FALSE]>>
       \/ \A a \in AdminActions :
             \A value \in AdminValueOf(a) :
                 ~AdminAction(AdminSocket, "guess", a, SlowName(2), value, 0)]_vars

\* a wrong password was refused on a server with a session, a logged
\* message and a policy that the administrator has changed
C21_Witness ==
    /\ branch = "admin_action:wrong_password"
    /\ connectedUsers # << >>
    /\ Len(chatHistory) > 1
    /\ serverConfig.isPrivate

\* C22: the admin action mute_all with the value v leaves the global-mute
\* flag equal to v, whatever the flag was: twice true leaves it on, false
\* leaves it off.
C22_MuteAllSets ==
    [][\A v \in BOOLEAN :
          AdminAction(AdminSocket, ADMIN_PASSWORD, "mute_all", SlowName(2), v, 0)
              => serverConfig'.globalMute = v]_vars

\* a mute_all has turned global mute off
C22_Witness ==
    /\ branch = "admin_action:mute_all"
    /\ emitted[2].success
    /\ ~serverConfig.globalMute

\* C23: after an admin action clear_history with the right password the
\* unified log, every channel log and the reaction index are empty.
C23_ClearsAll ==
    [][branch' = "admin_action:clear_history" =>
          /\ chatHistory' = << >>
          /\ \A ch \in DOMAIN channelHistories' : channelHistories'[ch] = << >>
          /\ messageReactions' = EmptyMap]_vars

\* clear_history has emptied the unified log and left a channel log
C23_Witness ==
    /\ branch = "admin_action:clear_history"
    /\ chatHistory = << >>
    /\ messageReactions = EmptyMap
    /\ \E ch \in DOMAIN channelHistories : channelHistories[ch] # << >>

(***************************************************************************)
(* Authors.                                                                *)
(***************************************************************************)
\* the messages of the log whose content the step changes, as indices
Edited(before, after) ==
    {i \in 1 .. Min(Len(before), Len(after)) :
        before[i].id = after[i].id /\ before[i].content # after[i].content}

\* C24: an edit_message changes the content of a message only when the
\* requester is the client that sent it (the socket in the message's
\* userId), not a session that holds the name stored in the message; a
\* request by any other client leaves the message as it was.
C24_OnlyAuthorEdits ==
    [][\A i \in Edited(chatHistory, chatHistory') :
          /\ branch' = "edit_message:ok"
          /\ chatHistory[i].userId = emitted'[2].to]_vars

\* a client has edited a message that another client sent, who is still
\* connected, under a new name
C24_Witness ==
    /\ branch = "edit_message:ok"
    /\ \E i \in 1 .. Len(chatHistory) :
          /\ chatHistory[i].id = emitted[1].messageId
          /\ chatHistory[i].edited
          /\ chatHistory[i].userId # emitted[2].to
          /\ HasUser(connectedUsers, chatHistory[i].userId)

\* C25: a delete_message removes a message only when the requester is the
\* client that sent it or gives the administrator's password; a request of
\* any other session without the password is refused and leaves the logs
\* and the reaction index as they were.
C25_OnlyAuthorOrAdminDeletes ==
    [][\A sid \in AuthorSockets, m \in MessageIds, pw \in Passwords :
          DeleteMessage(sid, m, pw) =>
              IF \E i \in 1 .. Len(chatHistory) :
                    /\ chatHistory[i].id = m
                    /\ chatHistory[i].userId = sid \/ pw = ADMIN_PASSWORD
              THEN TRUE
              ELSE /\ chatHistory' = chatHistory
                   /\ channelHistories' = channelHistories
                   /\ messageReactions' = messageReactions
                   /\ branch' # "delete_message:ok"]_vars

(***************************************************************************)
(* Message ids.                                                            *)
(***************************************************************************)
\* the ids of the log increase strictly along it
IdsIncrease(history) ==
    \A i, j \in 1 .. Len(history) : i < j => history[i].id < history[j].id

\* C26: the ids the server issues increase strictly in the order of
\* creation and none is issued twice: the counter never goes back, and the
\* ids of every log increase strictly along it.
C26_IdsNeverReused ==
    /\ [](/\ IdsIncrease(chatHistory)
          /\ \A ch \in DOMAIN channelHistories : IdsIncrease(channelHistories[ch]))
    /\ [][messageId' >= messageId]_vars

\* after a reset a channel log holds two messages with the same id
C26_Witness ==
    \E ch \in DOMAIN channelHistories :
        \E i, j \in 1 .. Len(channelHistories[ch]) :
            i < j /\ channelHistories[ch][i].id = channelHistories[ch][j].id

(***************************************************************************)
(* The reaction index.                                                     *)
(***************************************************************************)
\* C27: in every reachable state every message entry of the reaction index
\* has an emoji and every emoji entry has a reactor.
C27_NoEmptyEntries ==
    \A key \in DOMAIN messageReactions :
        /\ DOMAIN messageReactions[key] # {}
        /\ \A e \in DOMAIN messageReactions[key] :
              messageReactions[key][e] # << >>

\* a reaction event has left an emoji without a reactor in the index
C27_Witness ==
    /\ branch = "reaction:ok"
    /\ emitted[1].reactions = [e \in Emojis |-> << >>]
    /\ messageReactions[ToString(emitted[1].messageId)] = emitted[1].reactions

(***************************************************************************)
(* Renames and the authors of messages.                                    *)
(***************************************************************************)
\* the log after the step starts with the messages of the log before it,
\* each under the author it had
AuthorsKept(before, after) ==
    /\ Len(after) >= Len(before)
    /\ \A i \in 1 .. Len(before) :
          after[i].id = before[i].id /\ after[i].username = before[i].username

\* C28: a successful change_username leaves the author of every message in
\* the unified log and in the channel logs as it was and gives the session
\* the new name, and every message a session sends carries the name the
\* session has then.
C28_AuthorIsSnapshot ==
    [][/\ branch' = "change_username:ok" =>
            \A sid \in AuthorSockets, n \in AuthorRenames :
                ChangeUsername(sid, n) =>
                    /\ AuthorsKept(chatHistory, chatHistory')
                    /\ \A ch \in DOMAIN channelHistories :
                          AuthorsKept(channelHistories[ch], channelHistories'[ch])
                    /\ GetUser(connectedUsers', sid).username = n
       /\ branch' = "send_message:ok" =>
            \A sid \in AuthorSockets :
                SendMessage(sid, "", <<"h">>, FALSE) =>
                    /\ emitted'[1].message.username
                          = GetUser(connectedUsers, sid).username
                    /\ chatHistory'[Len(chatHistory')] = emitted'[1].message]_vars

\* the unified log holds two messages of one client, the first under the
\* name it joined with and the second, sent last, under the name it took
C28_Witness ==
    /\ branch = "send_message:ok"
    /\ \E i \in 1 .. Len(chatHistory) - 1 :
          LET first == chatHistory[i]
              second == chatHistory[Len(chatHistory)]
          IN  /\ first.type = "user"
              /\ first.userId = second.userId
              /\ first.username = <<"a">>
              /\ second.username = <<"c">>
              /\ GetUser(connectedUsers, second.userId).username = <<"c">>

(***************************************************************************)
(* The correlation token of a client.                                      *)
(***************************************************************************)
\* the uniqueUserId the client behind a socket puts into its user_join and
\* send_message payloads
ClientToken(sid) == <<"t", sid>>

\* C29: every message made by send_message carries, as uniqueUserId, the
\* correlation token of the client that sent it, so the messages of one
\* client before and after a rename carry one token.
C29_CarriesToken ==
    \A i \in 1 .. Len(chatHistory) :
        chatHistory[i].userId \in Sockets =>
            /\ "uniqueUserId" \in DOMAIN chatHistory[i]
            /\ chatHistory[i].uniqueUserId = ClientToken(chatHistory[i].userId)

\* a renamed client has sent a message that has no uniqueUserId
C29_Witness ==
    /\ branch = "send_message:ok"
    /\ emitted[1].message.username = <<"c">>
    /\ "uniqueUserId" \notin DOMAIN emitted[1].message
    /\ "uniqueUserId" \notin DOMAIN GetUser(connectedUsers, emitted[1].message.userId)

(***************************************************************************)
(* Polls: one vote for each name.                                          *)
(***************************************************************************)
RECURSIVE VotesCounted(_)
VotesCounted(options) ==
    IF options = << >> THEN 0
    ELSE Head(options).votes + VotesCounted(Tail(options))

\* the session's name is in the voter table of the poll
HasVoted(sid, p) ==
    /\ HasUser(connectedUsers, sid)
    /\ p \in DOMAIN pollVotes
    /\ GetUser(connectedUsers, sid).username \in DOMAIN pollVotes[p]

\* C30: the vote counts of the options of every poll add up to the number
\* of names in its voter table, and a vote_poll by a name that is in the
\* voter table of the poll is rejected and changes no count and no table.
C30_OneVotePerName ==
    /\ [](\A p \in DOMAIN polls :
            VotesCounted(polls[p].options) = Cardinality(DOMAIN pollVotes[p]))
    /\ [][\A sid \in AuthorSockets, p \in PollIds :
            HasVoted(sid, p) =>
                \A k \in OptionKeys :
                    VotePoll(sid, p, k) =>
                        /\ branch' = "vote_poll:already_voted"
                        /\ polls' = polls
                        /\ pollVotes' = pollVotes
                        /\ ~emitted'[1].success]_vars

\* a vote was accepted and the poll has more voters than counted votes
C30_Witness ==
    /\ branch = "vote_poll:ok"
    /\ emitted[1].success
    /\ \E p \in DOMAIN polls :
          /\ p = emitted[1].pollId
          /\ VotesCounted(polls[p].options) < Cardinality(DOMAIN pollVotes[p])

\* the second vote of a name is answered with a refusal
C30_SecondVote ==
    /\ branch = "vote_poll:already_voted"
    /\ \E p \in DOMAIN polls : Cardinality(DOMAIN pollVotes[p]) = 2

(***************************************************************************)
(* Failures inside a handler.                                              *)
(***************************************************************************)
\* C31: whatever the payload of a client event, the server is never
\* shutting down nor gone: it keeps running and handling events.
C31_StaysUp == process = "running"

\* the server has exited after a vote for an option the poll does not have,
\* while a client was connected
C31_Witness ==
    /\ process = "exited"
    /\ connectedUsers # << >>
    /\ \E p \in DOMAIN pollVotes : \E n \in DOMAIN pollVotes[p] :
          pollVotes[p][n] = "2"

(***************************************************************************)
(* Moves outside the board.                                                *)
(***************************************************************************)
InRange(game, move) ==
    IF game.type = "tictactoe" THEN move \in 0 .. TTT_CELLS - 1
    ELSE move \in 0 .. C4_COLS - 1

\* C32: a move whose cell is not one of 0..8, or whose column is not one of
\* 0..6, changes neither the board nor the turn, and the board of every
\* game has the cells it started with: 9 cells, or 6 rows of 7 cells.
C32_MovesInRange ==
    /\ [](\A gid \in DOMAIN activeGames :
            DOMAIN activeGames[gid].board
                = DOMAIN initGameState(activeGames[gid].type))
    /\ [][\A sid \in PlaySockets, move \in RangeMoves :
            (0 \in DOMAIN activeGames /\ ~InRange(activeGames[0], move)) =>
                (GameMove(sid, 0, move) => activeGames' = activeGames)]_vars

\* a game of tic-tac-toe goes on with a tenth cell on its board
C32_Witness ==
    /\ 0 \in DOMAIN activeGames
    /\ activeGames[0].type = "tictactoe"
    /\ TTT_CELLS \in DOMAIN activeGames[0].board
    /\ activeGames[0].board[TTT_CELLS] = "X"
    /\ branch = "game_move:ok"

(***************************************************************************)
(* Messages refused as invalid input.                                      *)
(***************************************************************************)
\* C33: a send_message refused for its channel or for having neither
\* content nor attachment changes nothing of the server: not the time of
\* the sender's last message, not the message-id counter, no log.
C33_RefusedChangesNothing ==
    [][branch' \in {"send_message:bad_channel", "send_message:empty"}
          => UNCHANGED server]_vars

\* an empty message was refused and its time is the time of the sender's
\* last message
C33_Witness ==
    /\ branch = "send_message:empty"
    /\ now > 0
    /\ emitted[1].to \in DOMAIN lastMessageTime
    /\ lastMessageTime[emitted[1].to] = DateNow(State)

(***************************************************************************)
(* Who ends a game.                                                        *)
(***************************************************************************)
\* C34: a game leaves activeGames only in a step that is a terminal move, a
\* game_quit or a disconnect, and a game_quit of a session that is not one
\* of the two players of the game leaves it active and sends nothing.
C34_OnlyPlayersEnd ==
    [][/\ \A gid \in DOMAIN activeGames :
            gid \notin DOMAIN activeGames' =>
                branch' \in {"game_move:over", "game_quit:ok", "disconnect"}
       /\ \A gid \in DOMAIN activeGames :
            \A sid \in Sockets \ PlayerSockets(activeGames[gid]) :
                GameQuit(sid, gid) =>
                    activeGames' = activeGames /\ emitted' = << >>]_vars

\* a game_quit ended a game and told both of its players
C34_Witness ==
    /\ branch = "game_quit:ok"
    /\ activeGames = EmptyMap
    /\ Len(emitted) = 2
    /\ emitted[1].to # emitted[2].to
    /\ \A k \in 1 .. 2 : emitted[k].ev = "game_opponent_quit"

(***************************************************************************)
(* The sessions bound to a game.                                           *)
(***************************************************************************)
\* C35: a game_move of a session that was not bound to the game when the
\* invite was accepted leaves the games as they are, and a game_move of the
\* connected session bound to the seat on turn is not refused for who sent
\* it, whatever names the sessions have now.
C35_BoundSessionsMove ==
    [][\A gid \in DOMAIN activeGames : \A sid \in Sockets, move \in GameMoves :
          GameMove(sid, gid, move) =>
              /\ sid \notin PlayerSockets(activeGames[gid])
                    => activeGames' = activeGames
              /\ (/\ HasUser(connectedUsers, sid)
                  /\ activeGames[gid].currentTurn
                        \in IndicesOf(activeGames[gid], sid))
                    => branch' \notin {"game_move:not_player",
                                       "game_move:not_turn"}]_vars

\* the inviter, on turn, has renamed and is alone with the invitee: its move
\* was refused as the move of a stranger
C35_Witness ==
    /\ branch = "game_move:not_player"
    /\ 0 \in DOMAIN activeGames
    /\ activeGames[0].players[1] = [username |-> <<"a">>, socket |-> 1]
    /\ activeGames[0].players[2] = [username |-> <<"b">>, socket |-> 2]
    /\ activeGames[0].currentTurn = 0
    /\ HasUser(connectedUsers, 1)
    /\ GetUser(connectedUsers, 1).username = <<"c">>
    /\ ~HasUser(connectedUsers, 3)

(***************************************************************************)
(* Banned names and connected sessions.                                    *)
(***************************************************************************)
\* C36: no connected session has a name for which there is a ban entry that
\* is permanent or has not expired.
C36_NoBannedSession ==
    \A i \in 1 .. Len(connectedUsers) :
        \A k \in BansOf(connectedUsers[i].username) : Lapsed(bannedUsers[k])

\* a session has given itself a name that is banned for ever
C36_Witness ==
    /\ branch = "change_username:ok"
    /\ \E i \in 1 .. Len(connectedUsers) :
          /\ connectedUsers[i].id = emitted[1].to
          /\ \E k \in BansOf(connectedUsers[i].username) :
                bannedUsers[k].permanent

(***************************************************************************)
(* The list of administrators and the connected sessions.                  *)
(***************************************************************************)
\* C37: every name on the list of administrators is the name a connected
\* session has now.
C37_AdminsConnected ==
    \A i \in 1 .. Len(adminUsersList) :
        \E j \in 1 .. Len(connectedUsers) :
            connectedUsers[j].username = adminUsersList[i]

\* the session that authenticated as "a" has left under another name, "a" is
\* still on the list, and the other client has just joined as "a"
C37_Witness ==
    /\ branch = "user_join:ok"
    /\ 2 \in closed
    /\ OnAdminList(<<"a">>)
    /\ connectedUsers = <<[id |-> 3, username |-> <<"a">>]>>

(***************************************************************************)
(* Typing lists.                                                           *)
(***************************************************************************)
\* an entry of a connected session that is younger than 5 s
Fresh(data) ==
    /\ START_TIME + now - data.timestamp < TYPING_TTL
    /\ \E j \in 1 .. Len(connectedUsers) : connectedUsers[j].id = data.id

\* the names of the fresh entries, of one channel or of all
FreshNames(chs) ==
    {typingUsers[i].username : i \in {j \in 1 .. Len(typingUsers) :
        Fresh(typingUsers[j]) /\ typingUsers[j].channel \in chs}}

Reported(names, chs) == \A k \in 1 .. Len(names) : names[k] \in FreshNames(chs)

Pair(m) == {m.from, m.to}

\* the thread after one more message: its last 100
Latest(thread, message) ==
    IF Len(thread) < DM_MAX THEN Append(thread, message)
    ELSE Append(Tail(thread), message)

\* C39: no thread has more than 100 messages; all the messages between two
\* names are in one thread, whichever of the two wrote; and an accepted
\* send_dm, to a connected name or not, puts its message last in a thread,
\* which otherwise keeps its latest messages in order, and changes no other
\* thread.
C39_Threads ==
    /\ [](/\ \A k \in DOMAIN dmHistory : Len(dmHistory[k]) <= DM_MAX
          /\ \A k1, k2 \in DOMAIN dmHistory :
                (\E i \in 1 .. Len(dmHistory[k1]), j \in 1 .. Len(dmHistory[k2]) :
                    Pair(dmHistory[k1][i]) = Pair(dmHistory[k2][j])) => k1 = k2)
    /\ [][branch' = "send_dm:ok" =>
            \E k \in DOMAIN dmHistory' :
                LET sent == dmHistory'[k][Len(dmHistory'[k])]
                IN  /\ sent.content = <<"h">>
                    /\ sent.to \in DmTargets
                    /\ \E sid \in AuthorSockets :
                          /\ HasUser(connectedUsers, sid)
                          /\ sent.from = GetUser(connectedUsers, sid).username
                    /\ dmHistory'[k] = Latest(ThreadAt(dmHistory, k), sent)
                    /\ \A k2 \in DOMAIN dmHistory' \ {k} :
                          k2 \in DOMAIN dmHistory /\ dmHistory'[k2] = dmHistory[k2]]_vars

\* "b" has answered "a" in the full thread of the two and "a" has written
\* to "z", who is not connected
C39_Witness ==
    /\ branch = "send_dm:ok"
    /\ \E k \in DOMAIN dmHistory :
          /\ Len(dmHistory[k]) = DM_MAX
          /\ dmHistory[k][DM_MAX].from = <<"b">>
          /\ dmHistory[k][DM_MAX - 1].from = <<"a">>
          /\ dmHistory[k][DM_MAX - 1].content = <<"h">>
          /\ dmHistory[k][1].content = <<"o">>
    /\ \E k \in DOMAIN dmHistory : dmHistory[k][1].to = <<"z">>

(***************************************************************************)
(* The shape of four-in-a-row boards.                                      *)
(***************************************************************************)
\* under every piece the column is filled down to the bottom row
Settled(b) ==
    \A rc \in DOMAIN b :
        b[rc] # "" =>
            \A r \in (rc[1] + 1) .. (C4_ROWS - 1) :
                <<r, rc[2]>> \in DOMAIN b /\ b[<<r, rc[2]>>] # ""

Pieces(b, color) == Cardinality({rc \in DOMAIN b : b[rc] = color})

\* C40: the board every four-in-a-row move leaves has no piece above an
\* empty cell of its column and as many red pieces as yellow ones, or one
\* more; so has the board of every game that is going on.
C40_Gravity ==
    /\ [](\A gid \in DOMAIN activeGames :
            activeGames[gid].type = "connect4" =>
                /\ Settled(activeGames[gid].board)
                /\ Pieces(activeGames[gid].board, "red")
                      - Pieces(activeGames[gid].board, "yellow") \in {0, 1})
    /\ [][(/\ branch' \in {"game_move:ok", "game_move:over"}
           /\ activeGames[0].type = "connect4") =>
              /\ Settled(emitted'[1].state)
              /\ Pieces(emitted'[1].state, "red")
                    - Pieces(emitted'[1].state, "yellow") \in {0, 1}]_vars

\* two pieces lie on each other in column 0 next to one in column 1
C40_Witness ==
    /\ branch = "game_move:ok"
    /\ 0 \in DOMAIN activeGames
    /\ activeGames[0].type = "connect4"
    /\ activeGames[0].board[<<C4_ROWS - 1, 0>>] = "red"
    /\ activeGames[0].board[<<C4_ROWS - 2, 0>>] = "yellow"
    /\ activeGames[0].board[<<C4_ROWS - 1, 1>>] # ""

====
